---- MODULE Spec2Model ----
(***************************************************************************)
(* Model of the multi-agent workflow orchestrator (src/src/workflow.py),   *)
(* with the JSON extraction utility (src/src/utils/json_parser.py), the    *)
(* retry policy (src/src/utils/retry.py), the agent executor               *)
(* (src/src/agents/executor.py), the audit logger                          *)
(* (src/src/services/logger.py) and the result schemas (src/src/models.py).*)
(*                                                                         *)
(* A Python string is a sequence of tokens (each token a TLA+ string): the *)
(* empty string is << >>, concatenation is \o.  A JSON value is a tagged   *)
(* record [t |-> tag, v |-> payload]; Python's None is json null.          *)
(***************************************************************************)
EXTENDS Integers, Sequences, FiniteSets, TLC

(***************************************************************************)
(* Bounds of the model.                                                    *)
(***************************************************************************)
\* most messages the Stage-1 concurrent workflow delivers in one run
MaxMsgs == 2

\* largest max_retries run_with_retry is called with on its own
MaxRetriesBound == 3

\* most events in a stream _execute_agent is run on, on its own
MaxEvents == 2

\* most messages in one output event of such a stream
MaxEventMsgs == 2

\* most parts (prose, objects, fenced blocks, tags) in a text extract_json is run on
MaxParts == 4

\* most method calls made on an AgentLogger used on its own
MaxLogOps == 4

\* most method calls made on the AgentLoggers of two concurrent runs
MaxSharedOps == 4

\* the last second of the clock the two runs read
MaxSecond == 2

(***************************************************************************)
(* JSON values (what json.loads returns).                                  *)
(***************************************************************************)
None == [t |-> "null"]
JStr(s) == [t |-> "str", v |-> s]
JInt(n) == [t |-> "int", v |-> n]
JList(l) == [t |-> "list", v |-> l]
JObj(f) == [t |-> "obj", v |-> f]
EmptyDict == JObj(<< >>)

\* Python truthiness of a JSON value
Truthy(x) ==
    CASE x.t = "null" -> FALSE
      [] x.t = "str"  -> x.v # << >>
      [] x.t = "int"  -> x.v # 0
      [] x.t = "list" -> x.v # << >>
      [] x.t = "obj"  -> DOMAIN x.v # {}

\* Python `key in x` for a string key: "true", "false" or "TypeError"
PyIn(key, x) ==
    CASE x.t = "obj"  -> IF key \in DOMAIN x.v THEN "true" ELSE "false"
      [] x.t = "list" -> IF \E i \in DOMAIN x.v : x.v[i] = JStr(<<key>>)
                         THEN "true" ELSE "false"
      [] x.t = "str"  -> IF \E i \in DOMAIN x.v : x.v[i] = key
                         THEN "true" ELSE "false"
      [] OTHER        -> "TypeError"

\* mutant of DictGet: a missing key gives None, the default is not used
DictGet_NoDefault(x, key, default) == IF key \in DOMAIN x.v THEN x.v[key] ELSE None

\* dict.get(key, default) on a JSON object
DictGet(x, key, default) == IF key \in DOMAIN x.v THEN x.v[key] ELSE default

(***************************************************************************)
(* Tokens.  A member token stands for one `"key": value` member of a JSON  *)
(* object whose value holds no brace; a scalar token stands for a complete *)
(* JSON value that is not an object; every other token is structure,       *)
(* whitespace or prose.  Every brace of a text is a token of its own, so   *)
(* that the regular expressions see the braces of nested objects too.      *)
(***************************************************************************)
Members ==
    ("intent:rv"        :> [k |-> "intent", v |-> JStr(<<"requiere_visualizacion">>)]) @@
    ("intent:np"        :> [k |-> "intent", v |-> JStr(<<"nivel_puntual">>)]) @@
    ("intent:otro"      :> [k |-> "intent", v |-> JStr(<<"otro">>)]) @@
    ("tipo_patron:A"    :> [k |-> "tipo_patron", v |-> JStr(<<"A">>)]) @@
    ("pregunta:q"       :> [k |-> "pregunta_original", v |-> JStr(<<"q">>)]) @@
    ("sql:select"       :> [k |-> "sql", v |-> JStr(<<"SELECT">>)]) @@
    ("tablas:[t]"       :> [k |-> "tablas", v |-> JList(<<JStr(<<"dbo.Loans">>)>>)]) @@
    ("tipo:consumo"     :> [k |-> "tipo", v |-> JStr(<<"consumo">>)]) @@
    ("a:1"              :> [k |-> "a", v |-> JInt(1)]) @@
    ("resultados:[]"    :> [k |-> "resultados", v |-> JList(<< >>)]) @@
    ("resultados:7"     :> [k |-> "resultados", v |-> JInt(7)]) @@
    ("total_filas:1"    :> [k |-> "total_filas", v |-> JInt(1)]) @@
    ("total_filas:\" 15\"" :> [k |-> "total_filas", v |-> JStr(<<"ws", "1", "5">>)]) @@
    ("resumen:r"        :> [k |-> "resumen", v |-> JStr(<<"un", "ws", "total">>)]) @@
    ("resumen:null"     :> [k |-> "resumen", v |-> None]) @@
    ("tipo_grafico:bar" :> [k |-> "tipo_grafico", v |-> JStr(<<"bar">>)]) @@
    ("tipo_grafico:"    :> [k |-> "tipo_grafico", v |-> JStr(<< >>)]) @@
    ("metric_name:m"    :> [k |-> "metric_name", v |-> JStr(<<"m">>)]) @@
    ("powerbi_url:ok"   :> [k |-> "powerbi_url", v |-> JStr(<<"https://", "pbi">>)]) @@
    ("powerbi_url:ph"   :> [k |-> "powerbi_url", v |-> JStr(<<"https://", "URL_GENERADO">>)]) @@
    ("powerbi_url:http" :> [k |-> "powerbi_url", v |-> JStr(<<"http://", "pbi">>)]) @@
    ("powerbi_url:null" :> [k |-> "powerbi_url", v |-> None]) @@
    ("run_id:r1"        :> [k |-> "run_id", v |-> JStr(<<"r1">>)]) @@
    ("run_id:"          :> [k |-> "run_id", v |-> JStr(<< >>)]) @@
    ("run_id:null"      :> [k |-> "run_id", v |-> None]) @@
    ("image_url:u"      :> [k |-> "image_url", v |-> JStr(<<"https://", "img">>)]) @@
    ("image_url:null"   :> [k |-> "image_url", v |-> None]) @@
    ("patron:p"         :> [k |-> "patron", v |-> JStr(<<"comparacion">>)]) @@
    ("arquetipo:A"      :> [k |-> "arquetipo", v |-> JStr(<<"A">>)]) @@
    ("visualizacion:NO" :> [k |-> "visualizacion", v |-> JStr(<<"NO">>)]) @@
    ("insight:i"        :> [k |-> "insight", v |-> JStr(<<"i">>)])

MemberTok == DOMAIN Members

\* `"key": [` : the key of a member whose value is a list of objects; the list
\* ends at the token "]"
ListKeys ==
    ("resultados:[" :> "resultados") @@ ("data_points:[" :> "data_points") @@
    ("datos:[" :> "datos")

\* `"key":` : the key of a member whose value is an object
ObjKeys == ("image_url:" :> "image_url")

Scalars ==
    ("null"  :> None) @@
    ("0"     :> JInt(0)) @@
    ("7"     :> JInt(7)) @@
    ("[]"    :> JList(<< >>)) @@
    ("[\"resultados\"]" :> JList(<<JStr(<<"resultados">>)>>)) @@
    ("\"resultados\""   :> JStr(<<"resultados">>))

ScalarTok == DOMAIN Scalars

WsTok == {"ws", "nl"}

\* the tokens that are runs of digits, with the number each one writes
DigitTok ==
    ("0" :> 0) @@ ("1" :> 1) @@ ("2" :> 2) @@ ("3" :> 3) @@ ("5" :> 5) @@ ("7" :> 7) @@
    ("30" :> 30) @@ ("000000" :> 0) @@ ("500000" :> 500000)

\* ten to the number of digits of a digit token
DigitShift(tok) ==
    IF tok \in {"000000", "500000"} THEN 1000000 ELSE IF tok = "30" THEN 100 ELSE 10

\* the number a run of digit tokens writes in base ten, after the digits acc
RECURSIVE DigitValue(_, _)
DigitValue(s, acc) ==
    IF s = << >> THEN acc
    ELSE DigitValue(Tail(s), acc * DigitShift(Head(s)) + DigitTok[Head(s)])

\* the position of the last token of the run of digits that holds position i
RECURSIVE RunEnd(_, _)
RunEnd(e, i) ==
    IF i + 1 <= Len(e) /\ e[i + 1] \in DOMAIN DigitTok THEN RunEnd(e, i + 1) ELSE i

(***************************************************************************)
(* str.strip()                                                             *)
(***************************************************************************)
RECURSIVE LStrip(_)
LStrip(s) == IF s # << >> /\ Head(s) \in WsTok THEN LStrip(Tail(s)) ELSE s

RECURSIVE RStrip(_)
RStrip(s) ==
    IF s # << >> /\ s[Len(s)] \in WsTok THEN RStrip(SubSeq(s, 1, Len(s) - 1)) ELSE s

Strip(s) == RStrip(LStrip(s))

(***************************************************************************)
(* json.loads: [ok |-> parsed?, val |-> value].  ok = FALSE stands for     *)
(* json.JSONDecodeError.  A later member with the same key wins.  The      *)
(* comma between two members of an object or two elements of a list is     *)
(* part of no token: two complete values that follow each other are        *)
(* separated, and digit tokens that follow each other write one number.    *)
(***************************************************************************)
\* position of the first token at or after p that is not whitespace (Len(s)+1 if none)
RECURSIVE SkipWs(_, _)
SkipWs(s, p) == IF p <= Len(s) /\ s[p] \in WsTok THEN SkipWs(s, p + 1) ELSE p

ParseFail == [ok |-> FALSE, val |-> None, next |-> 0]

\* the number that starts at position i: the run of digit tokens there, in
\* base ten; more than one digit after a leading 0 is no number
ParseNumber(s, i) ==
    IF DigitTok[s[i]] = 0 /\ (RunEnd(s, i) > i \/ DigitShift(s[i]) > 10) THEN ParseFail
    ELSE [ok |-> TRUE, val |-> JInt(DigitValue(SubSeq(s, i, RunEnd(s, i)), 0)),
          next |-> RunEnd(s, i) + 1]

RECURSIVE ParseValue(_, _)
RECURSIVE ParseMembers(_, _, _)
RECURSIVE ParseList(_, _, _)
\* the value that starts at position i: [ok, val, next |-> the position after it]
ParseValue(s, i) ==
    IF i > Len(s) THEN ParseFail
    ELSE IF s[i] = "{" THEN ParseMembers(s, i + 1, << >>)
    ELSE IF s[i] \in DOMAIN DigitTok THEN ParseNumber(s, i)
    ELSE IF s[i] \in ScalarTok THEN [ok |-> TRUE, val |-> Scalars[s[i]], next |-> i + 1]
    ELSE ParseFail

\* the members of an object from position i on, up to its closing brace:
\* [ok, val |-> the object, next |-> the position after the brace];
\* acc holds the members read so far
ParseMembers(s, i, acc) ==
    IF i > Len(s) THEN ParseFail
    ELSE IF s[i] \in WsTok THEN ParseMembers(s, i + 1, acc)
    ELSE IF s[i] = "}" THEN [ok |-> TRUE, val |-> JObj(acc), next |-> i + 1]
    ELSE IF s[i] \in MemberTok
    THEN ParseMembers(s, i + 1, (Members[s[i]].k :> Members[s[i]].v) @@ acc)
    ELSE IF s[i] \in DOMAIN ListKeys
    THEN LET l == ParseList(s, i + 1, << >>) IN
         IF l.ok THEN ParseMembers(s, l.next, (ListKeys[s[i]] :> l.val) @@ acc)
         ELSE ParseFail
    ELSE IF s[i] \in DOMAIN ObjKeys
    THEN LET o == ParseValue(s, SkipWs(s, i + 1)) IN
         IF o.ok THEN ParseMembers(s, o.next, (ObjKeys[s[i]] :> o.val) @@ acc)
         ELSE ParseFail
    ELSE ParseFail

\* the elements of a list from position i on, up to its closing bracket
ParseList(s, i, acc) ==
    IF i > Len(s) THEN ParseFail
    ELSE IF s[i] \in WsTok THEN ParseList(s, i + 1, acc)
    ELSE IF s[i] = "]" THEN [ok |-> TRUE, val |-> JList(acc), next |-> i + 1]
    ELSE LET o == ParseValue(s, i) IN
         IF o.ok THEN ParseList(s, o.next, Append(acc, o.val)) ELSE ParseFail

\* one value and nothing else but whitespace around it
json_loads(s) ==
    LET r == Strip(s)
        p == ParseValue(r, 1)
    IN  IF p.ok /\ p.next = Len(r) + 1
        THEN [ok |-> TRUE, val |-> p.val]
        ELSE [ok |-> FALSE, val |-> None]

(***************************************************************************)
(* The three regular expressions of extract_json, as leftmost matches over *)
(* tokens: [found |-> BOOLEAN, grp |-> group(1)].                          *)
(***************************************************************************)
NoMatch == [found |-> FALSE, grp |-> << >>]

\* the answer-tag pattern: the first <answer> that has a </answer> after it,
\* lazily up to the first </answer>, surrounding whitespace excluded
AnswerMatch(s) ==
    LET starts == {i \in DOMAIN s :
                      s[i] = "<answer>" /\ \E j \in DOMAIN s : j > i /\ s[j] = "</answer>"}
    IN  IF starts = {} THEN NoMatch
        ELSE LET i == CHOOSE a \in starts : \A b \in starts : a <= b
                 j == CHOOSE a \in DOMAIN s :
                         /\ a > i /\ s[a] = "</answer>"
                         /\ \A b \in DOMAIN s : (b > i /\ s[b] = "</answer>") => a <= b
             IN  [found |-> TRUE, grp |-> Strip(SubSeq(s, i + 1, j - 1))]

\* the fenced-block pattern (fence, optional json tag, whitespace, lazy brace
\* group, whitespace, fence) tried at the fence at position i:
\* the set of positions k of a closing brace that completes a match
FenceEnds(s, i) ==
    LET p == IF i + 1 <= Len(s) /\ s[i + 1] = "json" THEN i + 2 ELSE i + 1
        b == SkipWs(s, p)
    IN  IF b <= Len(s) /\ s[b] = "{"
        THEN {k \in (b + 1)..Len(s) :
                 /\ s[k] = "}"
                 /\ LET e == SkipWs(s, k + 1) IN e <= Len(s) /\ s[e] = "fence"}
        ELSE {}

FenceOpen(s, i) ==
    SkipWs(s, IF i + 1 <= Len(s) /\ s[i + 1] = "json" THEN i + 2 ELSE i + 1)

FenceMatch(s) ==
    LET starts == {i \in DOMAIN s : s[i] = "fence" /\ FenceEnds(s, i) # {}}
    IN  IF starts = {} THEN NoMatch
        ELSE LET i == CHOOSE a \in starts : \A b \in starts : a <= b
                 k == CHOOSE a \in FenceEnds(s, i) : \A b \in FenceEnds(s, i) : a <= b
             IN  [found |-> TRUE, grp |-> SubSeq(s, FenceOpen(s, i), k)]

\* the greedy brace pattern: from the first opening brace to the last closing brace
BraceMatch(s) ==
    LET opens  == {i \in DOMAIN s : s[i] = "{"}
        first  == CHOOSE a \in opens : \A b \in opens : a <= b
        closes == {j \in DOMAIN s : s[j] = "}" /\ j > first}
        lastc  == CHOOSE a \in closes : \A b \in closes : b <= a
    IN  IF opens = {} THEN NoMatch
        ELSE IF closes = {} THEN NoMatch
        ELSE [found |-> TRUE, grp |-> SubSeq(s, first, lastc)]

\* json.loads of a regex group, when the regex matched
LoadsGroup(m) == IF m.found THEN json_loads(m.grp) ELSE [ok |-> FALSE, val |-> None]

(***************************************************************************)
(* JSONParser.extract_json                                                 *)
(***************************************************************************)
extract_json(text) ==
    LET whole  == json_loads(text)
        ans    == AnswerMatch(text)
        ansF   == IF ans.found THEN LoadsGroup(FenceMatch(ans.grp))
                  ELSE [ok |-> FALSE, val |-> None]
        ansB   == IF ans.found THEN LoadsGroup(BraceMatch(ans.grp))
                  ELSE [ok |-> FALSE, val |-> None]
        fence  == LoadsGroup(FenceMatch(text))
        brace  == LoadsGroup(BraceMatch(text))
    IN  IF whole.ok THEN whole.val
        ELSE IF ansF.ok THEN ansF.val
        ELSE IF ansB.ok THEN ansB.val
        ELSE IF fence.ok THEN fence.val
        ELSE IF brace.ok THEN brace.val
        ELSE EmptyDict

(***************************************************************************)
(* Result schemas (src/src/models.py), validated as pydantic validates     *)
(* a keyword-unpacked call: every required field present, every present   *)
(* field of the declared type, absent optional fields defaulted, other    *)
(* keys ignored.                                                           *)
(* A field is [name, type, required, default].                             *)
(***************************************************************************)
Field(n, ty, req, d) == [name |-> n, type |-> ty, required |-> req, default |-> d]

SQLResult ==
    { Field("pregunta_original", "str", TRUE, None),
      Field("sql", "str", TRUE, None),
      Field("tablas", "list_str", FALSE, JList(<< >>)),
      Field("resultados", "list_dict", FALSE, JList(<< >>)),
      Field("total_filas", "int", FALSE, JInt(0)),
      Field("resumen", "str", TRUE, None) }

VizResult ==
    { Field("tipo_grafico", "str", TRUE, None),
      Field("metric_name", "str", TRUE, None),
      Field("data_points", "list_dict", TRUE, None),
      Field("powerbi_url", "str", TRUE, None),
      Field("run_id", "opt_str", FALSE, None),
      Field("image_base64", "opt_str", FALSE, None),
      Field("image_url", "opt_str", FALSE, None) }

FormattedResponse ==
    { Field("patron", "str", TRUE, None),
      Field("datos", "list_dict", TRUE, None),
      Field("arquetipo", "str", TRUE, None),
      Field("visualizacion", "str", TRUE, None),
      Field("tipo_grafica", "opt_str", FALSE, None),
      Field("imagen", "opt_str", FALSE, None),
      Field("link_power_bi", "opt_str", FALSE, None),
      Field("insight", "opt_str", FALSE, None) }

\* the strings pydantic's lax mode reads as an int: one run of digits, with
\* whitespace around it or none
IsDigits(x) ==
    /\ x.t = "str"
    /\ Strip(x.v) # << >>
    /\ \A i \in DOMAIN Strip(x.v) : Strip(x.v)[i] \in DOMAIN DigitTok


TypeOk(ty, x) ==
    CASE ty = "str"       -> x.t = "str"
      [] ty = "opt_str"   -> x.t \in {"str", "null"}
      [] ty = "int"       -> x.t = "int" \/ IsDigits(x)
      [] ty = "list_str"  -> x.t = "list" /\ \A i \in DOMAIN x.v : x.v[i].t = "str"
      [] ty = "list_dict" -> x.t = "list" /\ \A i \in DOMAIN x.v : x.v[i].t = "obj"

\* the value a field of type ty stores for the accepted input x: a string of
\* digits given for an int is stored as that int, nothing else is converted
Coerce(ty, x) == IF ty = "int" /\ IsDigits(x) THEN JInt(DigitValue(Strip(x.v), 0)) ELSE x

\* the fields of `schema` that `data` (a JSON object) gets wrong
BadFields(schema, data) ==
    {f.name : f \in {g \in schema :
        IF g.name \in DOMAIN data.v THEN ~TypeOk(g.type, data.v[g.name]) ELSE g.required}}

\* the model built from the unpacked `data`: [ok, val, err]; err is str(e) of the
\* exception raised
Validate(schema, name, data) ==
    IF data.t # "obj"
    THEN [ok |-> FALSE, val |-> None, err |-> <<"argument after ** must be a mapping">>]
    ELSE IF BadFields(schema, data) # {}
    THEN [ok |-> FALSE, val |-> None, err |-> <<"validation error for", name>>]
    ELSE [ok |-> TRUE,
          val |-> [n \in {f.name : f \in schema} |->
                     LET f == CHOOSE g \in schema : g.name = n IN
                     IF n \in DOMAIN data.v THEN Coerce(f.type, data.v[n])
                     ELSE f.default],
          err |-> << >>]

(***************************************************************************)
(* Retry policy (src/src/utils/retry.py) and agent executor                *)
(* (src/src/agents/executor.py).                                           *)
(***************************************************************************)
\* str.lower() of the tokens whose text holds a capital letter; the member
\* tokens "sql:select", "tablas:[t]" and "powerbi_url:ph" write values with
\* capitals (SELECT, dbo.Loans, URL_GENERADO)
LowerMap ==
    ("Rate Limit" :> "rate limit") @@ ("Seconds" :> "seconds") @@
    ("Max retries exceeded" :> "max retries exceeded") @@
    ("OSError" :> "oserror") @@ ("TypeError" :> "typeerror") @@
    ("KeyError" :> "keyerror") @@ ("AttributeError" :> "attributeerror") @@
    ("RuntimeError" :> "runtimeerror") @@ ("CancelledError" :> "cancellederror") @@
    ("Settings" :> "settings") @@ ("AgentOutput" :> "agentoutput") @@
    ("SQLResult" :> "sqlresult") @@ ("VizResult" :> "vizresult") @@
    ("FormattedResponse" :> "formattedresponse") @@
    ("No" :> "no") @@ ("NO" :> "no") @@ ("Hola" :> "hola") @@ ("Adios" :> "adios") @@
    ("A" :> "a") @@ ("SELECT" :> "select") @@ ("dbo.Loans" :> "dbo.loans") @@
    ("URL_GENERADO" :> "url_generado") @@
    ("IntentAgent" :> "intentagent") @@ ("SQLAgent" :> "sqlagent") @@
    ("VizAgent" :> "vizagent") @@ ("GraphExecutor" :> "graphexecutor") @@
    ("FormatAgent" :> "formatagent") @@
    ("Concurrent workflow did not return any messages" :>
        "concurrent workflow did not return any messages") @@
    ("Error: Concurrent workflow did not return any messages" :>
        "error: concurrent workflow did not return any messages") @@
    ("Error executing SQL query" :> "error executing sql query") @@
    ("Error parsing SQL results: " :> "error parsing sql results: ") @@
    ("SQLAgent could not complete the query successfully" :>
        "sqlagent could not complete the query successfully") @@
    ("System error: " :> "system error: ") @@ ("Iniciando..." :> "iniciando...") @@
    ("Exitoso" :> "exitoso") @@ ("Con errores" :> "con errores") @@
    ("URL_REAL" :> "url_real") @@
    ("arquetipo:A" :> "arquetipo:a") @@ ("tipo_patron:A" :> "tipo_patron:a") @@
    ("visualizacion:NO" :> "visualizacion:no") @@
    ("sql:select" :> "sql:select lowered") @@ ("tablas:[t]" :> "tablas:[t] lowered") @@
    ("powerbi_url:ph" :> "powerbi_url:ph lowered")

\* str(e).lower() of one token: a token without capital letters is kept
Lower(tok) == IF tok \in DOMAIN LowerMap THEN LowerMap[tok] ELSE tok

\* the tokens that hold one of the substrings looked for in the lowered text
RateLimitTok == {"rate limit", "rate_limit", "rate limit is exceeded"}

is_rate_limit(e) == \E i \in DOMAIN e : Lower(e[i]) \in RateLimitTok

\* mutant of LoopContinues: one iteration too many
LoopContinues_Inclusive(attempt, max_retries) == attempt <= max_retries

\* line 39: `for attempt in range(max_retries)` has another iteration
LoopContinues(attempt, max_retries) == attempt < max_retries

\* mutant of RetryDecision: every error is retried, rate limit or not
RetryDecision_AnyError(e, attempt, max_retries, retry_on_rate_limit) ==
    IF attempt < max_retries - 1 THEN "sleep" ELSE "raise"

\* what the except clause of attempt `attempt` does with exception e:
\* "sleep" (wait, then the next attempt) or "raise"
RetryDecision(e, attempt, max_retries, retry_on_rate_limit) ==
    IF is_rate_limit(e) /\ retry_on_rate_limit /\ attempt < max_retries - 1
    THEN "sleep" ELSE "raise"

\* the tokens that are no runs of digits but end in one, with its number
DigitTail ==
    ("r1" :> 1) @@ ("2026-01-01_00-00-0" :> 0) @@ ("2026-01-01_00-00-00" :> 0) @@
    ("a:1" :> 1) @@ ("total_filas:1" :> 1) @@ ("resultados:7" :> 7)

\* the tokens the word of the wait pattern matches, case ignored
SecondTok == {"second", "seconds", "Seconds"}

\* a run of digits of the text starts at position i: at a token that ends in
\* digits, or at a digit token that follows no digit
RunStarts(e, i) ==
    \/ e[i] \in DOMAIN DigitTail
    \/ /\ e[i] \in DOMAIN DigitTok
       /\ (i = 1 \/ e[i - 1] \notin (DOMAIN DigitTok \cup DOMAIN DigitTail))

\* line 56: the positions where a run of digits starts that optional whitespace
\* and the word "second" follow; `\d+` is greedy and the word cannot start
\* with a digit, so only a whole run matches
WaitMatches(e) ==
    {i \in DOMAIN e : /\ RunStarts(e, i)
                      /\ SkipWs(e, RunEnd(e, i) + 1) <= Len(e)
                      /\ e[SkipWs(e, RunEnd(e, i) + 1)] \in SecondTok}

\* line 58: float() of the digits matched from position i on
WaitGroup(e, i) ==
    DigitValue(SubSeq(e, i + 1, RunEnd(e, i)),
               IF e[i] \in DOMAIN DigitTail THEN DigitTail[e[i]] ELSE DigitTok[e[i]])

RECURSIVE Pow(_, _)
Pow(b, n) == IF n = 0 THEN 1 ELSE b * Pow(b, n - 1)

\* mutant of wait_time: the exponential backoff always, the text is not read
wait_time_BackoffOnly(e, attempt, initial_delay, backoff_factor) ==
    initial_delay * Pow(backoff_factor, attempt)

\* lines 56-61: the seconds to sleep before the next attempt; the leftmost match
\* of the pattern wins (delays are whole seconds here)
wait_time(e, attempt, initial_delay, backoff_factor) ==
    IF WaitMatches(e) # {}
    THEN WaitGroup(e, CHOOSE i \in WaitMatches(e) : \A j \in WaitMatches(e) : i <= j)
    ELSE initial_delay * Pow(backoff_factor, attempt)

\* run_single_agent's arguments to run_with_retry
AgentMaxRetries == 2
AgentRetryOnRateLimit == TRUE

\* _execute_agent's fold: the text of the last message with non-empty text over
\* all output events; a message is [text |-> JSON string or None]
\* mutant of KeepText: every message that has a text overwrites, the empty one too
KeepText_AnyString(msg, last_text) == IF msg.text.t = "str" THEN msg.text.v ELSE last_text

\* lines 25-26: one message of an output event; text |-> None also stands for a
\* message without the attribute text (hasattr is false)
KeepText(msg, last_text) == IF Truthy(msg.text) THEN msg.text.v ELSE last_text

RECURSIVE LastTextOf(_, _)
LastTextOf(msgs, last_text) ==
    IF msgs = << >> THEN last_text
    ELSE LastTextOf(Tail(msgs), KeepText(Head(msgs), last_text))

RECURSIVE LastText(_, _)
LastText(events, last_text) ==
    IF events = << >> THEN last_text
    ELSE LastText(Tail(events), LastTextOf(Head(events), last_text))

(***************************************************************************)
(* Audit logger (src/src/services/logger.py).  The storage is a function   *)
(* from file names <<directory, ordinal, name>> to contents; the session   *)
(* file's content is the sequence of the parts written to it.              *)
(***************************************************************************)
Timestamp == <<"2026-01-01_00-00-00">>

SessionFile(dir) == <<dir, 0, "session_info">>
AgentFile(dir, n, agent_name) == <<dir, n, agent_name>>

\* AgentLogger.__init__
NewLogger == [session_dir |-> None, agent_counter |-> 0]

\* mutant of session_timestamp: the microsecond is part of the session key
session_timestamp_Micro(now) == now.second \o <<".", now.micro>>

\* line 42: datetime.now().strftime("%Y-%m-%d_%H-%M-%S"); a time is
\* [second |-> the date and time to the second, micro |-> the microsecond]
session_timestamp(now) == now.second

\* an empty file: what open() leaves when the write that follows it fails
EmptyFile == << >>

\* what a write that raised OSError after some of its bytes leaves of content:
\* a proper, non-empty prefix of its text
Cut(content) == [cut |-> content]

\* what the storage does during one write_text or open-and-write: nothing
\* wrong, the open raising OSError (the file is left as it was), the write
\* raising OSError after the open and before any byte (write_text has
\* truncated the file by then), or the write raising OSError after some bytes
WriteStorage == {"ok", "open", "write", "partial"}

\* what the storage does during start_session: mkdir of line 44 raising
\* OSError, or one of the outcomes of write_text of line 70
StartStorage == {"mkdir"} \cup WriteStorage

\* start_session called at the time now: session_dir is set at line 43, the
\* counter is reset at line 45, after mkdir and before write_text
start_session_at(lg, fs, user_id, user_message, storage, now) ==
    IF storage = "ok"
    THEN [raised |-> FALSE,
          logger |-> [session_dir |-> JStr(session_timestamp(now)), agent_counter |-> 0],
          files  |-> (SessionFile(session_timestamp(now)) :>
                        <<[user_id |-> user_id, user_message |-> user_message]>>) @@ fs]
    ELSE [raised |-> TRUE,
          logger |-> [session_dir |-> JStr(session_timestamp(now)),
                      agent_counter |-> IF storage = "mkdir" THEN lg.agent_counter ELSE 0],
          files  |-> IF storage = "write"
                     THEN (SessionFile(session_timestamp(now)) :> EmptyFile) @@ fs
                     ELSE IF storage = "partial"
                     THEN (SessionFile(session_timestamp(now)) :>
                             <<Cut([user_id |-> user_id, user_message |-> user_message])>>) @@ fs
                     ELSE fs]

\* start_session: [raised, logger, files]; storage \in StartStorage
start_session(lg, fs, user_id, user_message, storage) ==
    start_session_at(lg, fs, user_id, user_message, storage,
                     [second |-> Timestamp, micro |-> 0])

\* mutant of log_agent_response: no session check; the counter is incremented
\* before the path of the file is built from session_dir
log_agent_response_NoGuard(lg, fs, agent_name, raw_response, parsed_response, input_text, storage) ==
    IF lg.session_dir = None
    THEN [raised |-> "TypeError", logger |-> [lg EXCEPT !.agent_counter = @ + 1], files |-> fs]
    ELSE [raised |-> IF storage = "ok" THEN "none" ELSE "OSError",
          logger |-> [lg EXCEPT !.agent_counter = @ + 1],
          files  |-> IF storage = "ok"
                     THEN (AgentFile(lg.session_dir.v, lg.agent_counter + 1, agent_name) :>
                             [agent_name |-> agent_name,
                              input_text |-> IF input_text # << >> THEN JStr(input_text) ELSE None,
                              raw_response |-> JStr(raw_response),
                              parsed_response |-> IF Truthy(parsed_response)
                                                  THEN parsed_response ELSE None]) @@ fs
                     ELSE IF storage = "write"
                     THEN (AgentFile(lg.session_dir.v, lg.agent_counter + 1, agent_name) :>
                             EmptyFile) @@ fs
                     ELSE IF storage = "partial"
                     THEN (AgentFile(lg.session_dir.v, lg.agent_counter + 1, agent_name) :>
                             Cut([agent_name |-> agent_name,
                                  input_text |-> IF input_text # << >> THEN JStr(input_text) ELSE None,
                                  raw_response |-> JStr(raw_response),
                                  parsed_response |-> IF Truthy(parsed_response)
                                                      THEN parsed_response ELSE None])) @@ fs
                     ELSE fs]

\* log_agent_response: [raised, logger, files]; raised is "none", "RuntimeError"
\* (no session) or "OSError" (write_text failed, after the counter was
\* incremented); storage \in WriteStorage
log_agent_response(lg, fs, agent_name, raw_response, parsed_response, input_text, storage) ==
    IF lg.session_dir = None
    THEN [raised |-> "RuntimeError", logger |-> lg, files |-> fs]
    ELSE LET n == lg.agent_counter + 1
             f == AgentFile(lg.session_dir.v, n, agent_name)
             content == [agent_name |-> agent_name,
                         input_text |-> IF input_text # << >> THEN JStr(input_text) ELSE None,
                         raw_response |-> JStr(raw_response),
                         parsed_response |-> IF Truthy(parsed_response)
                                             THEN parsed_response ELSE None]
         IN  IF storage = "ok"
             THEN [raised |-> "none",
                   logger |-> [lg EXCEPT !.agent_counter = n],
                   files  |-> (f :> content) @@ fs]
             ELSE [raised |-> "OSError",
                   logger |-> [lg EXCEPT !.agent_counter = n],
                   files  |-> IF storage = "write" THEN (f :> EmptyFile) @@ fs
                              ELSE IF storage = "partial" THEN (f :> Cut(content)) @@ fs
                              ELSE fs]

\* end_session: [raised, files]; the session file is opened for appending, so
\* a write failing after the open leaves what the file held (an empty file
\* where there was none), followed by the part of the summary that was
\* written; storage \in WriteStorage
end_session(lg, fs, success, final_message, errors, storage) ==
    IF lg.session_dir = None THEN [raised |-> FALSE, files |-> fs]
    ELSE LET f == SessionFile(lg.session_dir.v)
             summary == [status |-> IF success THEN "Exitoso" ELSE "Con errores",
                         agents |-> lg.agent_counter,
                         final_message |-> final_message,
                         errors |-> errors]
             old == IF f \in DOMAIN fs THEN fs[f] ELSE EmptyFile
         IN  IF storage = "ok"
             THEN [raised |-> FALSE, files |-> (f :> Append(old, summary)) @@ fs]
             ELSE [raised |-> TRUE,
                   files  |-> IF storage = "write" THEN (f :> old) @@ fs
                              ELSE IF storage = "partial" THEN (f :> Append(old, Cut(summary))) @@ fs
                              ELSE fs]

(***************************************************************************)
(* Inputs of one run: the user's question, what the agents may answer and  *)
(* the errors the collaborators may raise.                                 *)
(***************************************************************************)
UserMessage == <<"pregunta">>
UserId == <<"anonymous">>

TIntentRv  == <<"{", "intent:rv", "}">>
TIntentNp  == <<"txt", "fence", "json", "nl", "{", "intent:np", "tipo_patron:A", "}",
                "nl", "fence">>
TSqlOk     == <<"{", "pregunta:q", "sql:select", "tablas:[t]", "resultados:[", "{", "tipo:consumo", "}", "]",
                "total_filas:1", "resumen:r", "}">>
TSqlDigits == <<"{", "pregunta:q", "sql:select", "tablas:[t]", "resultados:[", "{", "tipo:consumo", "}", "]",
                "total_filas:\" 15\"", "resumen:r", "}">>
TSqlNoRows == <<"txt", "{", "pregunta:q", "sql:select", "resumen:r", "}">>
TSqlBad    == <<"{", "resultados:[", "{", "tipo:consumo", "}", "]", "sql:select", "}">>
TProse     == <<"No", "ws", "pude">>
TSeven     == <<"7">>
TList      == <<"[\"resultados\"]">>

TVizOk     == <<"{", "tipo_grafico:bar", "metric_name:m", "data_points:[", "{", "tipo:consumo", "}", "]",
                "powerbi_url:ok", "run_id:r1", "}">>
TVizNoRun  == <<"{", "tipo_grafico:bar", "metric_name:m", "data_points:[", "{", "tipo:consumo", "}", "]",
                "powerbi_url:ph", "}">>
TVizNoTipo == <<"{", "tipo_grafico:", "metric_name:m", "data_points:[", "{", "tipo:consumo", "}", "]",
                "powerbi_url:http", "run_id:r1", "}">>
TVizBad    == <<"{", "powerbi_url:ok", "run_id:r1", "}">>
TVizNoUrl  == <<"{", "tipo_grafico:bar", "run_id:r1", "}">>

TGraphOk   == <<"fence", "{", "image_url:u", "}", "fence">>
TGraphNull == <<"{", "image_url:null", "}">>
TGraphObj  == <<"{", "image_url:", "{", "a:1", "}", "}">>

TFormatOk  == <<"{", "patron:p", "datos:[", "{", "tipo:consumo", "}", "]", "arquetipo:A", "visualizacion:NO", "}">>
TFormatBad == <<"{", "patron:p", "insight:i", "}">>
TFormatMd  == <<"fence", "nl", "Hola", "nl", "fence">>
TFormatOpen == <<"fence", "nl", "Hola", "nl", "Adios">>

Msg(author, text) == [author_name |-> author, text |-> text]

\* the messages the Stage-1 output event may carry
Stage1Msgs ==
    {Msg("IntentAgent", JStr(t)) : t \in {TIntentRv, TIntentNp, TProse, TSeven}}
    \cup {Msg("SQLAgent", JStr(t)) : t \in {TSqlOk, TSqlNoRows, TSqlBad, TSeven, TList}}
    \cup {Msg("", JStr(t)) : t \in {TIntentRv, TSqlDigits}}
    \cup {Msg("SQLAgent", JStr(<< >>)), Msg("IntentAgent", None)}

\* the event streams one execution of a single agent may produce
Streams(texts) ==
    {<< >>}
    \cup {<< <<[text |-> JStr(t)]>> >> : t \in texts}
    \cup {<< <<[text |-> JStr(t)], [text |-> None]>>, <<[text |-> JStr(<< >>)]>> >> :
            t \in texts}

AgentStreams(agent) ==
    CASE agent = "VizAgent" ->
            Streams({TVizOk, TVizNoRun, TVizNoTipo, TVizBad, TVizNoUrl, TProse})
      [] agent = "GraphExecutor" -> Streams({TGraphOk, TGraphNull, TGraphObj, TProse})
      [] agent = "FormatAgent" -> Streams({TFormatOk, TFormatBad, TFormatMd, TFormatOpen})

ErrRate    == <<"Rate Limit", "ws", "exceeded">>
ErrConn    == <<"connection", "ws", "reset">>
ErrStorage == <<"OSError">>
ErrSettings == <<"validation error for", "Settings">>
ErrAuth    == <<"credential", "ws", "unavailable">>
AgentErrs  == {ErrRate, ErrConn}

\* errors whose text names a wait, and a timeout that is no rate limit
ErrRateWait   == <<"rate_limit", "ws", "retry", "ws", "after", "ws", "5", "ws", "seconds">>
ErrRateSecond == <<"rate limit is exceeded", "ws", "1", "second">>
ErrTimeout    == <<"timed out", "ws", "after", "ws", "30", "ws", "Seconds">>
ErrRateRun    == <<"Rate Limit", "ws", "1", "5", "ws", "seconds", "ws", "or", "ws", "7",
                  "seconds">>
ErrRateZeros  == <<"rate limit", "ws", "r1", "0", "7", "nl", "second">>
ErrCancelled  == <<"CancelledError">>
RetryErrs     == {ErrRate, ErrRateWait, ErrRateSecond, ErrRateRun, ErrRateZeros, ErrConn,
                  ErrTimeout}

(***************************************************************************)
(* State of one run of run_workflow.                                       *)
(***************************************************************************)
VARIABLES
    pc,             \* position in run_workflow
    response,       \* the ChatResponse being filled
    agent_logger,   \* the AgentLogger's fields
    files,          \* the audit storage
    credential,     \* "absent", "open", "closed" or "close_failed"
    scopes,         \* stack of the `async with` handles now entered
    handles,        \* handle -> "unopened", "enter_failed" (__aenter__ raised or was
                    \* cancelled), "open", "closed" or "close_failed" (__aexit__ raised
                    \* or was cancelled)
    pending,        \* what unwinds the scopes: a return or an exception
    messages, raw_intent, raw_sql_result, intent_data, sql_json, intent,
    raw,            \* agent -> raw result of run_single_agent
    parsed,         \* agent -> extract_json of the raw result
    attempt,        \* run_with_retry's loop variable
    hist,           \* what the run did: stages entered, agent calls, executions
    exc_log,        \* the exceptions raised outside every stage's own try/except
    outcome,        \* "running", "returned" or "raised" (exception left run_workflow)
    retry,          \* one call of run_with_retry on its own: arguments, loop state, history
    call            \* one call of another function on its own: arguments, position, result

vars == <<pc, response, agent_logger, files, credential, scopes, handles, pending,
          messages, raw_intent, raw_sql_result, intent_data, sql_json, intent,
          raw, parsed, attempt, hist, exc_log, outcome, retry, call>>

locals == <<messages, raw_intent, raw_sql_result, intent_data, sql_json, intent>>

Agents == {"IntentAgent", "SQLAgent", "VizAgent", "GraphExecutor", "FormatAgent"}
SingleAgents == {"VizAgent", "GraphExecutor", "FormatAgent"}
Handles == {"mcp", "intent_client", "sql_client", "viz_client", "chart_mcp",
            "graph_client", "format_client"}

\* ChatResponse(success=False, message="Iniciando...", errors=[])
NewResponse ==
    [success |-> FALSE, message |-> <<"Iniciando...">>, intent |-> None,
     sql_data |-> None, viz_data |-> None, formatted_response |-> None,
     agent_outputs |-> << >>, errors |-> << >>]

AgentOutput(agent_name, raw_response, parsed_response, input_text) ==
    [agent_name |-> agent_name, raw_response |-> raw_response,
     parsed_response |-> parsed_response, input_text |-> input_text]

\* what pydantic accepts for parsed_response: Optional[Dict[str, Any]]
\* (models.py line 39); anything else makes AgentOutput(...) raise
AgentOutputOk(parsed_response) == parsed_response.t \in {"obj", "null"}

ErrAgentOutput == <<"validation error for", "AgentOutput">>

\* a local variable not assigned yet
Unbound == [t |-> "unbound"]

NoPending == [kind |-> "none", e |-> << >>]

\* json.dumps of a record of values: a string of one opaque token
json_dumps(data) == << [dumps |-> data] >>

\* run_with_retry is not being called on its own
NoRetry == [status |-> "idle"]

\* no other function is being called on its own
NoCall == [fn |-> "none"]

RunInit ==
    /\ pc = "settings"
    /\ response = NewResponse
    /\ agent_logger = NewLogger
    /\ files = << >>
    /\ credential = "absent"
    /\ scopes = << >>
    /\ handles = [h \in Handles |-> "unopened"]
    /\ pending = NoPending
    /\ messages = << >>
    /\ raw_intent = << >>
    /\ raw_sql_result = << >>
    /\ intent_data = Unbound
    /\ sql_json = Unbound
    /\ intent = Unbound
    /\ raw = [a \in SingleAgents |-> << >>]
    /\ parsed = [a \in SingleAgents |-> Unbound]
    /\ attempt = 0
    /\ hist = [stages |-> [g \in {"viz", "chart", "format"} |-> 0],
               calls  |-> [a \in Agents |-> 0],
               execs  |-> [a \in Agents |-> 0]]
    /\ exc_log = << >>
    /\ outcome = "running"

Init == RunInit /\ retry = NoRetry /\ call = NoCall

(***************************************************************************)
(* Decisions and response updates of run_workflow, as pure operators.      *)
(***************************************************************************)
\* `x and key in x`: "true", "false" or "TypeError"
TruthyAndIn(key, x) == IF Truthy(x) THEN PyIn(key, x) ELSE "false"

\* texts of the messages of `msgs` whose author_name is `author`
RECURSIVE LastBy(_, _, _)
LastBy(msgs, author, acc) ==
    IF msgs = << >> THEN acc
    ELSE LastBy(Tail(msgs), author,
                IF Head(msgs).author_name = author THEN Head(msgs).text.v ELSE acc)

\* mutant of Reconcile: the results are taken by arrival order alone
Reconcile_ByOrder(msgs) ==
    IF Len(msgs) >= 2
    THEN [raw_intent |-> msgs[1].text.v, raw_sql_result |-> msgs[2].text.v]
    ELSE IF Len(msgs) = 1
    THEN [raw_intent |-> msgs[1].text.v, raw_sql_result |-> msgs[1].text.v]
    ELSE [raw_intent |-> << >>, raw_sql_result |-> << >>]

\* mutant of Reconcile: identity matching alone, no ordinal fallback
Reconcile_NoFallback(msgs) ==
    [raw_intent |-> LastBy(msgs, "IntentAgent", << >>),
     raw_sql_result |-> LastBy(msgs, "SQLAgent", << >>)]

\* lines 94-113: [raw_intent, raw_sql_result] chosen from the Stage-1 messages
Reconcile(msgs) ==
    LET by_intent == LastBy(msgs, "IntentAgent", << >>)
        by_sql    == LastBy(msgs, "SQLAgent", << >>)
    IN  IF by_intent # << >> /\ by_sql # << >>
        THEN [raw_intent |-> by_intent, raw_sql_result |-> by_sql]
        ELSE IF Len(msgs) >= 2
        THEN [raw_intent |-> msgs[1].text.v, raw_sql_result |-> msgs[2].text.v]
        ELSE IF Len(msgs) = 1
        THEN [raw_intent |-> msgs[1].text.v, raw_sql_result |-> msgs[1].text.v]
        ELSE [raw_intent |-> by_intent, raw_sql_result |-> by_sql]

\* mutant of NoMessages: the failure is not recorded in errors
NoMessages_Silent(resp) ==
    [resp EXCEPT !.success = FALSE,
                 !.message = <<"Error: Concurrent workflow did not return any messages">>]

\* lines 87-92
NoMessages(resp) ==
    [resp EXCEPT !.success = FALSE,
                 !.message = <<"Error: Concurrent workflow did not return any messages">>,
                 !.errors = Append(@, <<"Concurrent workflow did not return any messages">>)]

\* mutant of SqlHasResults: any non-empty JSON counts, the key is not looked for
SqlHasResults_AnyJson(sj) == IF Truthy(sj) THEN "true" ELSE "false"

\* line 160
SqlHasResults(sj) == TruthyAndIn("resultados", sj)

\* mutant of SqlSucceeded: success is set, the validated result is not stored
SqlSucceeded_NoData(resp, data) ==
    [resp EXCEPT !.message = data.resumen.v, !.success = TRUE]

\* lines 162-164
SqlSucceeded(resp, data) ==
    [resp EXCEPT !.sql_data = data, !.message = data.resumen.v, !.success = TRUE]

\* lines 165-169
SqlInvalid(resp, raw_sql, err) ==
    [resp EXCEPT !.message = raw_sql, !.success = FALSE,
                 !.errors = Append(@, <<"Error parsing SQL results: ">> \o err)]

\* lines 175-177
SqlNoResults(resp, raw_sql) ==
    [resp EXCEPT !.success = FALSE,
                 !.message = IF raw_sql # << >> THEN raw_sql
                             ELSE <<"Error executing SQL query">>,
                 !.errors = Append(@, <<"SQLAgent could not complete the query successfully">>)]

\* mutant of VizGate: the intent is not looked at
VizGate_AnyIntent(it, resp) == resp.sql_data # None

\* line 184
VizGate(it, resp) == it = JStr(<<"requiere_visualizacion">>) /\ resp.sql_data # None

\* mutant of ChartGate: tipo_grafico is not looked at
ChartGate_NoTipo(resp) == resp.viz_data # None /\ Truthy(resp.viz_data.run_id)

\* mutant of ChartGate: run_id is not looked at
ChartGate_NoRunId(resp) == resp.viz_data # None /\ Truthy(resp.viz_data.tipo_grafico)

\* line 242
ChartGate(resp) ==
    /\ resp.viz_data # None
    /\ Truthy(resp.viz_data.run_id)
    /\ Truthy(resp.viz_data.tipo_grafico)

\* mutant of FormatGate: the formatting stage runs only after a visualization
FormatGate_NeedsViz(resp) == resp.success /\ resp.sql_data # None /\ resp.viz_data # None

\* line 306
FormatGate(resp) == resp.success /\ resp.sql_data # None

\* lines 378-382 and 385-389: the fallback message
StripFenceWrapper(text) ==
    LET m   == Strip(text)
        nls == {i \in DOMAIN m : m[i] = "nl"}
        lo  == CHOOSE a \in nls : \A b \in nls : a <= b
        hi  == CHOOSE a \in nls : \A b \in nls : b <= a
    IN  IF m # << >> /\ m[1] = "fence" /\ Cardinality(nls) >= 2
        THEN SubSeq(m, lo + 1, hi - 1)
        ELSE m

FallbackMessage(resp, text) ==
    [resp EXCEPT !.message = IF StripFenceWrapper(text) # << >>
                             THEN StripFenceWrapper(text)
                             ELSE resp.sql_data.resumen.v]

\* mutant of MarkSuccess: success only when the formatting output parsed
MarkSuccess_IfFormatted(resp) == [resp EXCEPT !.success = resp.formatted_response # None]

\* line 392
MarkSuccess(resp) == [resp EXCEPT !.success = TRUE]

\* mutant of ExceptHandler: the exception is not recorded in errors
ExceptHandler_NoError(resp, e) ==
    [resp EXCEPT !.success = FALSE, !.message = <<"System error: ">> \o e]

\* lines 394-398
ExceptHandler(resp, e) ==
    [resp EXCEPT !.success = FALSE,
                 !.message = <<"System error: ">> \o e,
                 !.errors = Append(@, e)]

(***************************************************************************)
(* Control flow helpers.                                                   *)
(***************************************************************************)
\* an exception raised inside the try block: it unwinds the entered scopes
Raise(e) ==
    /\ pending' = [kind |-> "exc", e |-> e]
    /\ exc_log' = Append(exc_log, e)
    /\ pc' = "unwind"

\* mutant of ReturnEarly: the return leaves the function at once, the entered
\* scopes are not left
ReturnEarly_NoUnwind ==
    /\ pending' = NoPending
    /\ exc_log' = exc_log
    /\ pc' = "finally"

\* a return statement inside the try block: it unwinds the entered scopes too
ReturnEarly ==
    /\ pending' = [kind |-> "return", e |-> << >>]
    /\ exc_log' = exc_log
    /\ pc' = "unwind"

\* the task is cancelled while it awaits: CancelledError unwinds the entered
\* scopes; it is no Exception, so `except Exception` does not catch it
Cancelled ==
    /\ pending' = [kind |-> "cancel", e |-> ErrCancelled]
    /\ exc_log' = Append(exc_log, ErrCancelled)
    /\ pc' = "unwind"

\* the exception leaves run_workflow
Escape(e) == outcome' = "raised" /\ pc' = "done" /\ exc_log' = Append(exc_log, e)

\* `async with` entries: position -> [h |-> handle, next |-> position after it]
OpenAt ==
    ("open_mcp"           :> [h |-> "mcp", next |-> "open_intent_client"]) @@
    ("open_intent_client" :> [h |-> "intent_client", next |-> "open_sql_client"]) @@
    ("open_sql_client"    :> [h |-> "sql_client", next |-> "stage1"]) @@
    ("open_viz_client"    :> [h |-> "viz_client", next |-> "viz_run"]) @@
    ("open_chart_mcp"     :> [h |-> "chart_mcp", next |-> "open_graph_client"]) @@
    ("open_graph_client"  :> [h |-> "graph_client", next |-> "graph_run"]) @@
    ("open_format_client" :> [h |-> "format_client", next |-> "format_run"])

\* ends of `async with` blocks: position -> position after the block
CloseAt ==
    ("close_sql_client"    :> "close_intent_client") @@
    ("close_intent_client" :> "check_sql") @@
    ("close_viz_client"    :> "chart_gate") @@
    ("close_graph_client"  :> "close_chart_mcp") @@
    ("close_chart_mcp"     :> "format_gate") @@
    ("close_format_client" :> "mark_success") @@
    ("close_mcp"           :> "finally")

\* run_single_agent calls: position -> agent and the positions around it
RunAt ==
    ("viz_run"    :> [agent |-> "VizAgent", next |-> "viz_log"]) @@
    ("graph_run"  :> [agent |-> "GraphExecutor", next |-> "graph_log"]) @@
    ("format_run" :> [agent |-> "FormatAgent", next |-> "format_log"])

\* inside run_with_retry: the position where the execution of the agent is
\* awaited and the position where the sleep is awaited -> the position of the call
ExecAt == ("viz_exec" :> "viz_run") @@ ("graph_exec" :> "graph_run") @@
          ("format_exec" :> "format_run")

SleepAt == ("viz_sleep" :> "viz_run") @@ ("graph_sleep" :> "graph_run") @@
           ("format_sleep" :> "format_run")

ExecOf(run) == CHOOSE p \in DOMAIN ExecAt : ExecAt[p] = run
SleepOf(run) == CHOOSE p \in DOMAIN SleepAt : SleepAt[p] = run

Top(stack) == stack[Len(stack)]
Pop(stack) == SubSeq(stack, 1, Len(stack) - 1)

(***************************************************************************)
(* Lines 28-34: before the try block.                                      *)
(***************************************************************************)
\* line 28: get_settings() returns, or raises (a required model name is missing)
GetSettings ==
    /\ pc = "settings"
    /\ \/ pc' = "start_session" /\ outcome' = outcome /\ exc_log' = exc_log
       \/ Escape(ErrSettings)
    /\ UNCHANGED <<response, agent_logger, files, credential, scopes, handles, pending,
                   locals, raw, parsed, attempt, hist>>
    /\ UNCHANGED <<retry, call>>

\* lines 31-32: AgentLogger().start_session(...)
StartSession ==
    /\ pc = "start_session"
    /\ \E storage \in StartStorage :
          LET r == start_session(agent_logger, files, UserId, UserMessage, storage)
          IN  /\ agent_logger' = r.logger
              /\ files' = r.files
              /\ IF r.raised THEN Escape(ErrStorage)
                 ELSE pc' = "credential" /\ outcome' = outcome /\ exc_log' = exc_log
    /\ UNCHANGED <<response, credential, scopes, handles, pending, locals, raw, parsed,
                   attempt, hist>>
    /\ UNCHANGED <<retry, call>>

\* line 34: DefaultAzureCredential()
CreateCredential ==
    /\ pc = "credential"
    /\ \/ credential' = "open" /\ pc' = "open_mcp" /\ outcome' = outcome /\ exc_log' = exc_log
       \/ credential' = credential /\ Escape(ErrAuth)
    /\ UNCHANGED <<response, agent_logger, files, scopes, handles, pending, locals, raw,
                   parsed, attempt, hist>>
    /\ UNCHANGED <<retry, call>>

(***************************************************************************)
(* Scoped handles: entering, leaving at the end of the block, unwinding.   *)
(***************************************************************************)
\* `async with ... as h:` entered; or __aenter__ raises, or the task is
\* cancelled inside it: the scope is not entered and __aexit__ is not called
OpenHandle ==
    /\ pc \in DOMAIN OpenAt
    /\ \/ /\ scopes' = Append(scopes, OpenAt[pc].h)
          /\ handles' = [handles EXCEPT ![OpenAt[pc].h] = "open"]
          /\ pc' = OpenAt[pc].next
          /\ pending' = pending /\ exc_log' = exc_log
       \/ /\ Raise(ErrConn)
          /\ handles' = [handles EXCEPT ![OpenAt[pc].h] = "enter_failed"]
          /\ scopes' = scopes
       \/ /\ Cancelled
          /\ handles' = [handles EXCEPT ![OpenAt[pc].h] = "enter_failed"]
          /\ scopes' = scopes
    /\ UNCHANGED <<response, agent_logger, files, credential, locals, raw, parsed,
                   attempt, hist, outcome>>
    /\ UNCHANGED <<retry, call>>

\* the end of an `async with` block: __aexit__ closes the handle; or it
\* raises, or the task is cancelled inside it
CloseHandle ==
    /\ pc \in DOMAIN CloseAt
    /\ scopes' = Pop(scopes)
    /\ \/ /\ handles' = [handles EXCEPT ![Top(scopes)] = "closed"]
          /\ pc' = CloseAt[pc]
          /\ pending' = pending /\ exc_log' = exc_log
       \/ /\ handles' = [handles EXCEPT ![Top(scopes)] = "close_failed"]
          /\ Raise(ErrConn)
       \/ /\ handles' = [handles EXCEPT ![Top(scopes)] = "close_failed"]
          /\ Cancelled
    /\ UNCHANGED <<response, agent_logger, files, credential, locals, raw, parsed,
                   attempt, hist, outcome>>
    /\ UNCHANGED <<retry, call>>

\* a return or an exception leaves the innermost entered scope; an exception
\* raised by its __aexit__, or a cancellation inside it, takes the place of
\* what was pending
Unwind ==
    /\ pc = "unwind"
    /\ scopes # << >>
    /\ scopes' = Pop(scopes)
    /\ \/ /\ handles' = [handles EXCEPT ![Top(scopes)] = "closed"]
          /\ pending' = pending /\ exc_log' = exc_log
       \/ /\ handles' = [handles EXCEPT ![Top(scopes)] = "close_failed"]
          /\ pending' = [kind |-> "exc", e |-> ErrConn]
          /\ exc_log' = Append(exc_log, ErrConn)
       \/ /\ handles' = [handles EXCEPT ![Top(scopes)] = "close_failed"]
          /\ pending' = [kind |-> "cancel", e |-> ErrCancelled]
          /\ exc_log' = Append(exc_log, ErrCancelled)
    /\ UNCHANGED <<pc, response, agent_logger, files, credential, locals, raw, parsed,
                   attempt, hist, outcome>>
    /\ UNCHANGED <<retry, call>>

\* every scope left by an exception: `except Exception` (lines 394-398)
Except ==
    /\ pc = "unwind"
    /\ scopes = << >>
    /\ pending.kind = "exc"
    /\ response' = ExceptHandler(response, pending.e)
    /\ pending' = NoPending
    /\ pc' = "finally"
    /\ UNCHANGED <<exc_log, agent_logger, files, credential, scopes, handles, locals, raw, parsed,
                   attempt, hist, outcome>>
    /\ UNCHANGED <<retry, call>>

\* every scope left by a return statement (lines 92, 170, 179): on to `finally`
ReturnToFinally ==
    /\ pc = "unwind"
    /\ scopes = << >>
    /\ pending.kind = "return"
    /\ pending' = NoPending
    /\ pc' = "finally"
    /\ UNCHANGED <<exc_log, response, agent_logger, files, credential, scopes, handles, locals,
                   raw, parsed, attempt, hist, outcome>>
    /\ UNCHANGED <<retry, call>>

\* every scope left by a CancelledError: lines 394-398 are passed over, the
\* finally block runs with the exception still pending
CancelToFinally ==
    /\ pc = "unwind"
    /\ scopes = << >>
    /\ pending.kind = "cancel"
    /\ pc' = "finally"
    /\ UNCHANGED <<exc_log, response, agent_logger, files, credential, scopes, handles, locals,
                   raw, parsed, attempt, hist, outcome, pending>>
    /\ UNCHANGED <<retry, call>>

\* lines 401-405: agent_logger.end_session(...), which may raise on storage
FinallyEndSession ==
    /\ pc = "finally"
    /\ \E storage \in WriteStorage :
          LET r == end_session(agent_logger, files, response.success, response.message,
                               response.errors, storage)
          IN  /\ files' = r.files
              /\ IF r.raised THEN Escape(ErrStorage)
                 ELSE pc' = "close_credential" /\ outcome' = outcome /\ exc_log' = exc_log
    /\ UNCHANGED <<response, agent_logger, credential, scopes, handles, pending, locals,
                   raw, parsed, attempt, hist>>
    /\ UNCHANGED <<retry, call>>

\* line 406: await credential.close(); line 408 (or the pending return): the
\* response is returned, unless a CancelledError is pending, which goes on to
\* the caller
FinallyClose ==
    /\ pc = "close_credential"
    /\ \/ /\ credential' = "closed" /\ pc' = "done" /\ exc_log' = exc_log
          /\ outcome' = IF pending.kind = "cancel" THEN "raised" ELSE "returned"
       \/ credential' = "close_failed" /\ Escape(ErrAuth)
       \/ credential' = "close_failed" /\ Escape(ErrCancelled)
    /\ UNCHANGED <<response, agent_logger, files, scopes, handles, pending, locals, raw,
                   parsed, attempt, hist>>
    /\ UNCHANGED <<retry, call>>

(***************************************************************************)
(* Stage 1, lines 72-157: IntentAgent and SQLAgent run concurrently.       *)
(***************************************************************************)
\* line 78: workflow.run_stream(message) starts both agents
RunStream ==
    /\ pc = "stage1"
    /\ hist' = [hist EXCEPT !.calls["IntentAgent"] = @ + 1, !.calls["SQLAgent"] = @ + 1,
                            !.execs["IntentAgent"] = @ + 1, !.execs["SQLAgent"] = @ + 1]
    /\ messages' = << >>
    /\ pc' = "stream"
    /\ UNCHANGED <<response, agent_logger, files, credential, scopes, handles, pending, exc_log,
                   raw_intent, raw_sql_result, intent_data, sql_json, intent, raw, parsed,
                   attempt, outcome>>
    /\ UNCHANGED <<retry, call>>

\* lines 78-83: one more message of the output event; kept if its text is non-empty
StreamMessage ==
    /\ pc = "stream"
    /\ Len(messages) < MaxMsgs
    /\ \E msg \in Stage1Msgs :
          messages' = IF Truthy(msg.text) THEN Append(messages, msg) ELSE messages
    /\ UNCHANGED <<pc, response, agent_logger, files, credential, scopes, handles, pending, exc_log,
                   raw_intent, raw_sql_result, intent_data, sql_json, intent, raw, parsed,
                   attempt, hist, outcome>>
    /\ UNCHANGED <<retry, call>>

\* the stream raises (an agent failed), or the task is cancelled while the
\* next event is awaited; Stage 1 has no retry
StreamRaise ==
    /\ pc = "stream"
    /\ \/ \E e \in AgentErrs : Raise(e)
       \/ Cancelled
    /\ UNCHANGED <<response, agent_logger, files, credential, scopes, handles, locals,
                   raw, parsed, attempt, hist, outcome>>
    /\ UNCHANGED <<retry, call>>

\* lines 87-113: the stream ended
StreamEnd ==
    /\ pc = "stream"
    /\ IF messages = << >>
       THEN /\ response' = NoMessages(response)
            /\ ReturnEarly
            /\ UNCHANGED <<raw_intent, raw_sql_result>>
       ELSE /\ raw_intent' = Reconcile(messages).raw_intent
            /\ raw_sql_result' = Reconcile(messages).raw_sql_result
            /\ pc' = "log_intent"
            /\ UNCHANGED <<response, pending, exc_log>>
    /\ UNCHANGED <<agent_logger, files, credential, scopes, handles, messages,
                   intent_data, sql_json, intent, raw, parsed, attempt, hist, outcome>>
    /\ UNCHANGED <<retry, call>>

\* lines 116-136: the intent output is parsed, logged, appended; intent is read
LogIntent ==
    /\ pc = "log_intent"
    /\ intent_data' = extract_json(raw_intent)
    /\ \E storage \in WriteStorage :
          LET r == log_agent_response(agent_logger, files, "IntentAgent", raw_intent,
                                      intent_data', UserMessage, storage)
              out == AgentOutput("IntentAgent", raw_intent, intent_data', UserMessage)
          IN  /\ agent_logger' = r.logger
              /\ files' = r.files
              /\ IF r.raised # "none"
                 THEN Raise(<<r.raised>>) /\ UNCHANGED <<response, intent>>
                 ELSE IF ~AgentOutputOk(intent_data')
                 THEN Raise(ErrAgentOutput) /\ UNCHANGED <<response, intent>>
                 ELSE IF intent_data'.t # "obj"
                 THEN /\ response' = [response EXCEPT !.agent_outputs = Append(@, out)]
                      /\ Raise(<<"AttributeError">>)
                      /\ intent' = intent
                 ELSE /\ intent' = DictGet(intent_data', "intent", JStr(<<"nivel_puntual">>))
                      /\ response' = [response EXCEPT !.agent_outputs = Append(@, out),
                                                      !.intent = intent']
                      /\ pc' = "log_sql"
                      /\ pending' = pending /\ exc_log' = exc_log
    /\ UNCHANGED <<credential, scopes, handles, messages, raw_intent, raw_sql_result,
                   sql_json, raw, parsed, attempt, hist, outcome>>
    /\ UNCHANGED <<retry, call>>

\* lines 140-157: the SQL output is parsed, logged, appended
LogSql ==
    /\ pc = "log_sql"
    /\ sql_json' = extract_json(raw_sql_result)
    /\ \E storage \in WriteStorage :
          LET r == log_agent_response(agent_logger, files, "SQLAgent", raw_sql_result,
                                      sql_json', UserMessage, storage)
              out == AgentOutput("SQLAgent", raw_sql_result, sql_json', UserMessage)
          IN  /\ agent_logger' = r.logger
              /\ files' = r.files
              /\ IF r.raised # "none"
                 THEN Raise(<<r.raised>>) /\ response' = response
                 ELSE IF ~AgentOutputOk(sql_json')
                 THEN Raise(ErrAgentOutput) /\ response' = response
                 ELSE /\ response' = [response EXCEPT !.agent_outputs = Append(@, out)]
                      /\ pc' = "close_sql_client"
                      /\ pending' = pending /\ exc_log' = exc_log
    /\ UNCHANGED <<credential, scopes, handles, messages, raw_intent, raw_sql_result,
                   intent_data, intent, raw, parsed, attempt, hist, outcome>>
    /\ UNCHANGED <<retry, call>>

\* lines 159-179: the SQL result is validated, or the run returns
CheckSql ==
    /\ pc = "check_sql"
    /\ LET has == SqlHasResults(sql_json)
           v   == Validate(SQLResult, "SQLResult", sql_json)
       IN  CASE has = "TypeError" ->
                   Raise(<<"TypeError">>) /\ response' = response
             [] has = "false" ->
                   response' = SqlNoResults(response, raw_sql_result) /\ ReturnEarly
             [] has = "true" /\ ~v.ok ->
                   response' = SqlInvalid(response, raw_sql_result, v.err) /\ ReturnEarly
             [] has = "true" /\ v.ok ->
                   /\ response' = SqlSucceeded(response, v.val)
                   /\ pc' = "viz_gate"
                   /\ pending' = pending /\ exc_log' = exc_log
    /\ UNCHANGED <<agent_logger, files, credential, scopes, handles, locals, raw, parsed,
                   attempt, hist, outcome>>
    /\ UNCHANGED <<retry, call>>

(***************************************************************************)
(* run_single_agent (executor.py lines 13-36) under run_with_retry         *)
(* (retry.py lines 37-76): the execution is started, it ends, and a sleep   *)
(* ends, in a step each; between them the event loop runs other tasks.     *)
(***************************************************************************)
\* retry.py lines 39-41: the next iteration awaits func(), which builds the
\* workflow and starts run_stream (executor.py lines 20-22)
AgentAttempt ==
    /\ pc \in DOMAIN RunAt
    /\ attempt < AgentMaxRetries
    /\ LET a == RunAt[pc].agent IN
       hist' = [hist EXCEPT !.calls[a] = IF attempt = 0 THEN @ + 1 ELSE @,
                            !.execs[a] = @ + 1]
    /\ pc' = ExecOf(pc)
    /\ UNCHANGED <<response, agent_logger, files, credential, scopes, handles, locals,
                   raw, parsed, attempt, pending, exc_log, outcome>>
    /\ UNCHANGED <<retry, call>>

\* executor.py lines 22-27: the stream ends and the last text is returned; or
\* it raises, and the except clause (retry.py lines 42-71) goes to the sleep
\* or raises again; or the task is cancelled while the stream is awaited
ExecuteAgent ==
    /\ pc \in DOMAIN ExecAt
    /\ LET run == ExecAt[pc]
           a   == RunAt[run].agent
       IN  \/ \E events \in AgentStreams(a) :
                 /\ raw' = [raw EXCEPT ![a] = LastText(events, << >>)]
                 /\ attempt' = 0
                 /\ pc' = RunAt[run].next
                 /\ pending' = pending /\ exc_log' = exc_log
           \/ \E e \in AgentErrs :
                 IF RetryDecision(e, attempt, AgentMaxRetries, AgentRetryOnRateLimit) = "sleep"
                 THEN /\ pc' = SleepOf(run)
                      /\ UNCHANGED <<attempt, pending, exc_log, raw>>
                 ELSE /\ attempt' = 0
                      /\ Raise(e)
                      /\ raw' = raw
           \/ /\ attempt' = 0
              /\ Cancelled
              /\ raw' = raw
    /\ UNCHANGED <<response, agent_logger, files, credential, scopes, handles, locals,
                   parsed, hist, outcome>>
    /\ UNCHANGED <<retry, call>>

\* retry.py lines 67-68: the sleep ends and the loop goes on; or the task is
\* cancelled while it sleeps
AgentSleep ==
    /\ pc \in DOMAIN SleepAt
    /\ \/ /\ attempt' = attempt + 1
          /\ pc' = SleepAt[pc]
          /\ pending' = pending /\ exc_log' = exc_log
       \/ /\ attempt' = 0
          /\ Cancelled
    /\ UNCHANGED <<response, agent_logger, files, credential, scopes, handles, locals,
                   raw, parsed, hist, outcome>>
    /\ UNCHANGED <<retry, call>>

\* mutant of LogResult: the entry takes the place of the last entry of agent_outputs
LogResult_Overwrite(a, input_text, next) ==
    /\ parsed' = [parsed EXCEPT ![a] = extract_json(raw[a])]
    /\ \E storage \in WriteStorage :
          LET r == log_agent_response(agent_logger, files, a, raw[a], parsed'[a],
                                      input_text, storage)
          IN  /\ agent_logger' = r.logger
              /\ files' = r.files
              /\ IF r.raised # "none"
                 THEN Raise(<<r.raised>>) /\ response' = response
                 ELSE IF ~AgentOutputOk(parsed'[a])
                 THEN Raise(ErrAgentOutput) /\ response' = response
                 ELSE /\ response' = [response EXCEPT !.agent_outputs =
                              [@ EXCEPT ![Len(@)] = AgentOutput(a, raw[a], parsed'[a],
                                                                input_text)]]
                      /\ pc' = next
                      /\ pending' = pending /\ exc_log' = exc_log
    /\ UNCHANGED <<credential, scopes, handles, locals, raw, attempt, hist, outcome>>
    /\ UNCHANGED <<retry, call>>

\* the result of an agent is parsed, logged and appended to agent_outputs
\* (lines 208-225, 276-293, 351-368)
LogResult(a, input_text, next) ==
    /\ parsed' = [parsed EXCEPT ![a] = extract_json(raw[a])]
    /\ \E storage \in WriteStorage :
          LET r == log_agent_response(agent_logger, files, a, raw[a], parsed'[a],
                                      input_text, storage)
          IN  /\ agent_logger' = r.logger
              /\ files' = r.files
              /\ IF r.raised # "none"
                 THEN Raise(<<r.raised>>) /\ response' = response
                 ELSE IF ~AgentOutputOk(parsed'[a])
                 THEN Raise(ErrAgentOutput) /\ response' = response
                 ELSE /\ response' = [response EXCEPT !.agent_outputs =
                              Append(@, AgentOutput(a, raw[a], parsed'[a], input_text))]
                      /\ pc' = next
                      /\ pending' = pending /\ exc_log' = exc_log
    /\ UNCHANGED <<credential, scopes, handles, locals, raw, attempt, hist, outcome>>
    /\ UNCHANGED <<retry, call>>

(***************************************************************************)
(* Stage 2, lines 184-237: visualization.                                  *)
(***************************************************************************)
\* line 184
VizBranch ==
    /\ pc = "viz_gate"
    /\ IF VizGate(intent, response)
       THEN pc' = "open_viz_client" /\ hist' = [hist EXCEPT !.stages["viz"] = @ + 1]
       ELSE pc' = "chart_gate" /\ hist' = hist
    /\ UNCHANGED <<response, agent_logger, files, credential, scopes, handles, pending, exc_log,
                   locals, raw, parsed, attempt, outcome>>
    /\ UNCHANGED <<retry, call>>

\* lines 199-204
viz_input ==
    json_dumps([user_id |-> UserId, sql_results |-> sql_json,
                original_question |-> UserMessage])

\* lines 208-225
VizLog == pc = "viz_log" /\ LogResult("VizAgent", viz_input, "viz_parse")

\* line 230: the URL is not a real one (the condition of the warning)
PlaceholderUrl(url) ==
    \/ url = << >>
    \/ url # << >> /\ url[1] # "https://"
    \/ \E k \in DOMAIN url : url[k] \in {"URL_GENERADO", "URL_REAL"}

\* mutant of VizParse: a URL that is not a real one is not stored
VizParse_RejectPlaceholder(vj) ==
    LET has == TruthyAndIn("powerbi_url", vj)
        v   == Validate(VizResult, "VizResult", vj)
    IN  CASE has = "TypeError" -> [raised |-> TRUE, e |-> <<"TypeError">>, viz_data |-> None]
          [] has = "false" -> [raised |-> FALSE, e |-> << >>, viz_data |-> None]
          [] has = "true" /\ vj.t # "obj" ->
                [raised |-> TRUE, e |-> <<"AttributeError">>, viz_data |-> None]
          [] has = "true" /\ vj.t = "obj" /\ vj.v["powerbi_url"].t # "str" ->
                [raised |-> TRUE, e |-> <<"AttributeError">>, viz_data |-> None]
          [] has = "true" /\ vj.t = "obj" /\ vj.v["powerbi_url"].t = "str" /\ ~v.ok ->
                [raised |-> TRUE, e |-> v.err, viz_data |-> None]
          [] OTHER -> [raised |-> FALSE, e |-> << >>,
                       viz_data |-> IF PlaceholderUrl(vj.v["powerbi_url"].v)
                                    THEN None ELSE v.val]

\* lines 227-237: [raised, e, viz_data]
VizParse(vj) ==
    LET has == TruthyAndIn("powerbi_url", vj)
        v   == Validate(VizResult, "VizResult", vj)
    IN  CASE has = "TypeError" -> [raised |-> TRUE, e |-> <<"TypeError">>, viz_data |-> None]
          [] has = "false" -> [raised |-> FALSE, e |-> << >>, viz_data |-> None]
          [] has = "true" /\ vj.t # "obj" ->
                [raised |-> TRUE, e |-> <<"AttributeError">>, viz_data |-> None]
          [] has = "true" /\ vj.t = "obj" /\ vj.v["powerbi_url"].t # "str" ->
                [raised |-> TRUE, e |-> <<"AttributeError">>, viz_data |-> None]
          [] has = "true" /\ vj.t = "obj" /\ vj.v["powerbi_url"].t = "str" /\ ~v.ok ->
                [raised |-> TRUE, e |-> v.err, viz_data |-> None]
          [] OTHER -> [raised |-> FALSE, e |-> << >>, viz_data |-> v.val]

VizResultStep ==
    /\ pc = "viz_parse"
    /\ LET r == VizParse(parsed["VizAgent"]) IN
       IF r.raised
       THEN Raise(r.e) /\ response' = response
       ELSE /\ response' = [response EXCEPT !.viz_data = r.viz_data]
            /\ pc' = "close_viz_client"
            /\ pending' = pending /\ exc_log' = exc_log
    /\ UNCHANGED <<agent_logger, files, credential, scopes, handles, locals, raw, parsed,
                   attempt, hist, outcome>>
    /\ UNCHANGED <<retry, call>>

(***************************************************************************)
(* Stage 2b, lines 242-301: chart image.                                   *)
(***************************************************************************)
\* line 242
ChartBranch ==
    /\ pc = "chart_gate"
    /\ IF ChartGate(response)
       THEN pc' = "open_chart_mcp" /\ hist' = [hist EXCEPT !.stages["chart"] = @ + 1]
       ELSE pc' = "format_gate" /\ hist' = hist
    /\ UNCHANGED <<response, agent_logger, files, credential, scopes, handles, pending, exc_log,
                   locals, raw, parsed, attempt, outcome>>
    /\ UNCHANGED <<retry, call>>

\* lines 246-251
graph_input ==
    json_dumps([run_id |-> response.viz_data.run_id,
                tipo_grafico |-> response.viz_data.tipo_grafico,
                data_points |-> response.viz_data.data_points])

\* lines 276-293
GraphLog == pc = "graph_log" /\ LogResult("GraphExecutor", graph_input, "graph_merge")

\* the interpreters the code may run under: a slice is unhashable before
\* Python 3.12 and hashable from it on
Interpreters == {"before 3.12", "from 3.12"}

\* x[:100]: what it raises (<< >> when it raises nothing).  A JSON object is
\* looked up with the slice as key: KeyError when the slice can be hashed,
\* TypeError when it cannot
SliceRaises(x, py) ==
    CASE x.t \in {"str", "list"} -> << >>
      [] x.t = "obj" -> IF py = "from 3.12" THEN <<"KeyError">> ELSE <<"TypeError">>
      [] OTHER -> <<"TypeError">>

\* lines 296-301: [raised, e, viz_data]; the slice image_url[:100] of line 299
\* raises on a value that is neither a string nor a list, after the assignment
GraphMerge(gj, vd, py) ==
    LET has == TruthyAndIn("image_url", gj) IN
    CASE has = "TypeError" -> [raised |-> TRUE, e |-> <<"TypeError">>, viz_data |-> vd]
      [] has = "false" -> [raised |-> FALSE, e |-> << >>, viz_data |-> vd]
      [] has = "true" /\ gj.t # "obj" ->
            [raised |-> TRUE, e |-> <<"TypeError">>, viz_data |-> vd]
      [] OTHER ->
            [raised |-> SliceRaises(gj.v["image_url"], py) # << >>,
             e |-> SliceRaises(gj.v["image_url"], py),
             viz_data |-> [vd EXCEPT !.image_url = gj.v["image_url"]]]

GraphResultStep ==
    /\ pc = "graph_merge"
    /\ \E py \in Interpreters :
       LET r == GraphMerge(parsed["GraphExecutor"], response.viz_data, py) IN
       /\ response' = [response EXCEPT !.viz_data = r.viz_data]
       /\ IF r.raised THEN Raise(r.e)
          ELSE pc' = "close_graph_client" /\ pending' = pending /\ exc_log' = exc_log
    /\ UNCHANGED <<agent_logger, files, credential, scopes, handles, locals, raw, parsed,
                   attempt, hist, outcome>>
    /\ UNCHANGED <<retry, call>>

(***************************************************************************)
(* Stage 3, lines 306-392: formatting.                                     *)
(***************************************************************************)
\* line 306
FormatBranch ==
    /\ pc = "format_gate"
    /\ IF FormatGate(response)
       THEN pc' = "open_format_client" /\ hist' = [hist EXCEPT !.stages["format"] = @ + 1]
       ELSE pc' = "mark_success" /\ hist' = hist
    /\ UNCHANGED <<response, agent_logger, files, credential, scopes, handles, pending, exc_log,
                   locals, raw, parsed, attempt, outcome>>
    /\ UNCHANGED <<retry, call>>

\* lines 326-333: the six fields of viz_data handed on; image_base64 is not one
VizFields ==
    {"tipo_grafico", "metric_name", "data_points", "powerbi_url", "run_id", "image_url"}

\* lines 310-335: the key viz_data is there only when a visualization is
format_input ==
    LET base == [pregunta_original |-> UserMessage, intent |-> intent,
                 tipo_patron |-> DictGet(intent_data, "tipo_patron", None),
                 arquetipo |-> DictGet(intent_data, "arquetipo", None),
                 sql_data |-> response.sql_data]
        viz  == [k \in {"viz_data"} |-> [f \in VizFields |-> response.viz_data[f]]]
    IN  json_dumps(IF response.viz_data # None THEN viz @@ base ELSE base)

\* lines 351-368
FormatLog == pc = "format_log" /\ LogResult("FormatAgent", format_input, "format_parse")

\* lines 371-390
FormatParse(resp, fj, formatted_message) ==
    LET v == Validate(FormattedResponse, "FormattedResponse", fj) IN
    IF Truthy(fj) /\ v.ok
    THEN [resp EXCEPT !.formatted_response = v.val]
    ELSE FallbackMessage(resp, formatted_message)

FormatResultStep ==
    /\ pc = "format_parse"
    /\ response' = FormatParse(response, parsed["FormatAgent"], raw["FormatAgent"])
    /\ pc' = "close_format_client"
    /\ UNCHANGED <<agent_logger, files, credential, scopes, handles, pending, exc_log, locals, raw,
                   parsed, attempt, hist, outcome>>
    /\ UNCHANGED <<retry, call>>

\* line 392
Success ==
    /\ pc = "mark_success"
    /\ response' = MarkSuccess(response)
    /\ pc' = "close_mcp"
    /\ UNCHANGED <<agent_logger, files, credential, scopes, handles, pending, exc_log, locals, raw,
                   parsed, attempt, hist, outcome>>
    /\ UNCHANGED <<retry, call>>

Next ==
    \/ GetSettings \/ StartSession \/ CreateCredential
    \/ OpenHandle \/ CloseHandle \/ Unwind \/ Except \/ ReturnToFinally \/ CancelToFinally
    \/ RunStream \/ StreamMessage \/ StreamRaise \/ StreamEnd
    \/ LogIntent \/ LogSql \/ CheckSql
    \/ AgentAttempt \/ ExecuteAgent \/ AgentSleep
    \/ VizBranch \/ VizLog \/ VizResultStep
    \/ ChartBranch \/ GraphLog \/ GraphResultStep
    \/ FormatBranch \/ FormatLog \/ FormatResultStep \/ Success
    \/ FinallyEndSession \/ FinallyClose

Spec == Init /\ [][Next]_vars

\* the run under the scheduling of the event loop: a step that can be taken
\* (an awaited agent execution, channel open or close, or sleep completing or
\* failing, or the next statement) is eventually taken
FairSpec == Init /\ [][Next]_vars /\ WF_vars(Next)

(***************************************************************************)
(* run_with_retry (retry.py lines 14-76) called on its own, with every     *)
(* argument free; the operation returns or raises at each call.            *)
(***************************************************************************)
\* the calls of run_with_retry: its arguments and the state of line 37
RetryCalls ==
    {[status |-> "loop", max_retries |-> m, initial_delay |-> d, backoff_factor |-> b,
      retry_on_rate_limit |-> r, attempt |-> 0, calls |-> 0, sleeps |-> << >>,
      raised |-> << >>, result |-> None] :
        m \in 0..MaxRetriesBound, d \in {2, 5}, b \in {1, 2}, r \in BOOLEAN}

RetryInit == RunInit /\ retry \in RetryCalls /\ call = NoCall

\* line 41: func() returns, and so does run_with_retry
RetryCallReturns ==
    /\ retry.status = "loop"
    /\ LoopContinues(retry.attempt, retry.max_retries)
    /\ retry' = [retry EXCEPT !.calls = @ + 1, !.status = "returned",
                              !.result = JStr(<<"texto">>)]
    /\ UNCHANGED <<pc, response, agent_logger, files, credential, scopes, handles, pending,
                   locals, raw, parsed, attempt, hist, exc_log, outcome, call>>

\* lines 42-71: func() raises an Exception; the except clause raises it again
\* or begins the wait of line 67
RetryCallRaises ==
    /\ retry.status = "loop"
    /\ LoopContinues(retry.attempt, retry.max_retries)
    /\ \E e \in RetryErrs :
          IF RetryDecision(e, retry.attempt, retry.max_retries,
                           retry.retry_on_rate_limit) = "sleep"
          THEN retry' = [retry EXCEPT
                    !.calls = @ + 1,
                    !.raised = Append(@, e),
                    !.sleeps = Append(@, wait_time(e, retry.attempt, retry.initial_delay,
                                                   retry.backoff_factor)),
                    !.status = "sleeping"]
          ELSE retry' = [retry EXCEPT !.calls = @ + 1, !.raised = Append(@, e),
                                      !.status = "raised", !.result = e]
    /\ UNCHANGED <<pc, response, agent_logger, files, credential, scopes, handles, pending,
                   locals, raw, parsed, attempt, hist, exc_log, outcome, call>>

\* line 41: the task is cancelled while func() is awaited; CancelledError is no
\* Exception, the except clause is passed over
RetryCallCancelled ==
    /\ retry.status = "loop"
    /\ LoopContinues(retry.attempt, retry.max_retries)
    /\ retry' = [retry EXCEPT !.calls = @ + 1, !.raised = Append(@, ErrCancelled),
                              !.status = "raised", !.result = ErrCancelled]
    /\ UNCHANGED <<pc, response, agent_logger, files, credential, scopes, handles, pending,
                   locals, raw, parsed, attempt, hist, exc_log, outcome, call>>

\* lines 67-68: the sleep ends; `continue` starts the next iteration
RetrySleepEnds ==
    /\ retry.status = "sleeping"
    /\ retry' = [retry EXCEPT !.attempt = @ + 1, !.status = "loop"]
    /\ UNCHANGED <<pc, response, agent_logger, files, credential, scopes, handles, pending,
                   locals, raw, parsed, attempt, hist, exc_log, outcome, call>>

\* line 67: the task is cancelled while it sleeps; CancelledError leaves
\* run_with_retry from inside the except clause
RetrySleepCancelled ==
    /\ retry.status = "sleeping"
    /\ retry' = [retry EXCEPT !.status = "raised", !.result = ErrCancelled]
    /\ UNCHANGED <<pc, response, agent_logger, files, credential, scopes, handles, pending,
                   locals, raw, parsed, attempt, hist, exc_log, outcome, call>>

\* lines 74-76: the loop ended without a return or a raise
RetryExhausted ==
    /\ retry.status = "loop"
    /\ ~LoopContinues(retry.attempt, retry.max_retries)
    /\ retry' = [retry EXCEPT !.status = "raised",
                              !.result = IF retry.raised # << >>
                                         THEN retry.raised[Len(retry.raised)]
                                         ELSE <<"Max retries exceeded">>]
    /\ UNCHANGED <<pc, response, agent_logger, files, credential, scopes, handles, pending,
                   locals, raw, parsed, attempt, hist, exc_log, outcome, call>>

RetryNext ==
    \/ RetryCallReturns \/ RetryCallRaises \/ RetryCallCancelled
    \/ RetrySleepEnds \/ RetrySleepCancelled \/ RetryExhausted

RetrySpec == RetryInit /\ [][RetryNext]_vars

(***************************************************************************)
(* run_single_agent._execute_agent on its own (src/src/agents/executor.py  *)
(* lines 19-27): one step per event of the stream.  An event is            *)
(* [output |-> is it a WorkflowOutputEvent, data |-> its messages].        *)
(***************************************************************************)
EventTexts == {JStr(<<"uno">>), JStr(<<"dos">>), JStr(<< >>), None}

SeqsUpTo(S, n) == UNION {[1..k -> S] : k \in 0..n}

ExecEvents ==
    {[output |-> TRUE, data |-> d] : d \in SeqsUpTo([text : EventTexts], MaxEventMsgs)}
    \cup {[output |-> FALSE, data |-> << >>]}

\* line 21: last_text = "" before the first event
ExecCalls ==
    {[fn |-> "_execute_agent", status |-> "stream", stream |-> st, pos |-> 0,
      last_text |-> << >>, result |-> None] : st \in SeqsUpTo(ExecEvents, MaxEvents)}

ExecInit == RunInit /\ retry = NoRetry /\ call \in ExecCalls

\* lines 22-26: the next event is an output event
ExecOutputEvent ==
    /\ call.fn = "_execute_agent" /\ call.status = "stream"
    /\ call.pos < Len(call.stream)
    /\ call.stream[call.pos + 1].output
    /\ call' = [call EXCEPT !.pos = @ + 1,
                            !.last_text = LastTextOf(call.stream[call.pos + 1].data, @)]
    /\ UNCHANGED <<pc, response, agent_logger, files, credential, scopes, handles, pending,
                   locals, raw, parsed, attempt, hist, exc_log, outcome, retry>>

\* lines 22-23: the next event is of another kind
ExecOtherEvent ==
    /\ call.fn = "_execute_agent" /\ call.status = "stream"
    /\ call.pos < Len(call.stream)
    /\ ~call.stream[call.pos + 1].output
    /\ call' = [call EXCEPT !.pos = @ + 1]
    /\ UNCHANGED <<pc, response, agent_logger, files, credential, scopes, handles, pending,
                   locals, raw, parsed, attempt, hist, exc_log, outcome, retry>>

\* line 27: the stream ended
ExecReturn ==
    /\ call.fn = "_execute_agent" /\ call.status = "stream"
    /\ call.pos = Len(call.stream)
    /\ call' = [call EXCEPT !.status = "returned", !.result = JStr(call.last_text)]
    /\ UNCHANGED <<pc, response, agent_logger, files, credential, scopes, handles, pending,
                   locals, raw, parsed, attempt, hist, exc_log, outcome, retry>>

ExecNext == ExecOutputEvent \/ ExecOtherEvent \/ ExecReturn

ExecSpec == ExecInit /\ [][ExecNext]_vars

(***************************************************************************)
(* JSONParser.extract_json on its own (src/src/utils/json_parser.py lines  *)
(* 13-51): one step per attempt.  call.tried is the sequence of the        *)
(* attempts made so far.                                                   *)
(***************************************************************************)
Fenced(tag, content) == <<"fence">> \o tag \o <<"nl">> \o content \o <<"nl", "fence">>

ExtractParts ==
    { <<"Hola">>,
      <<"{", "intent:rv", "}">>,
      Fenced(<<"json">>, <<"{", "intent:np", "}">>),
      Fenced(<< >>, <<"{", "intent:otro", "}">>),
      Fenced(<< >>, <<"Hola">>),
      <<"<answer>">>,
      <<"</answer>">>,
      <<"{">> }

RECURSIVE Concat(_)
Concat(ps) == IF ps = << >> THEN << >> ELSE Head(ps) \o Concat(Tail(ps))

\* texts whose objects hold objects: the regular expressions see the inner braces
NestedTexts ==
    { TGraphObj,
      TSqlBad,
      Fenced(<<"json">>, TGraphObj),
      <<"<answer>">> \o TGraphObj \o <<"</answer>">>,
      <<"resultados:[", "{", "tipo:consumo", "}", "]">>,
      <<"Hola", "image_url:", "{", "a:1", "}">>,
      Fenced(<<"json">>, <<"resultados:[", "{", "tipo:consumo", "}", "]">>),
      <<"fence", "{", "image_url:", "{", "a:1", "}", "ws", "fence">>,
      <<"{", "resultados:[", "{", "tipo:consumo", "}", "]", "Hola">>,
      <<"{", "image_url:", "{", "a:1", "}", "}", "Hola", "{", "a:1", "}">>,
      <<"1", "5">>,
      <<"0", "5">>,
      <<"1", "ws", "5">>,
      <<"{", "image_url:", "ws", "1", "5", "}">>,
      <<"{", "image_url:", "null", "a:1", "}">>,
      <<"{", "resultados:[", "7", "null", "{", "a:1", "}", "3", "0", "]", "}">>,
      <<"{", "resultados:[", "0", "5", "]", "}">>,
      Fenced(<<"json">>, <<"{", "datos:[", "\"resultados\"", "]", "}">>) }

ExtractTexts ==
    {Concat(ps) : ps \in SeqsUpTo(ExtractParts, MaxParts)}
    \cup {<<t>> : t \in ScalarTok}
    \cup {<<"nl", t, "ws">> : t \in ScalarTok}
    \cup NestedTexts

ExtractCalls ==
    {[fn |-> "extract_json", status |-> "running", text |-> t, step |-> "loads",
      tried |-> << >>, result |-> None] : t \in ExtractTexts}

ExtractInit == RunInit /\ retry = NoRetry /\ call \in ExtractCalls

\* mutant of StepAfter: no answer-tag attempts; the fenced block follows the whole text
StepAfter_NoAnswer(step, text) ==
    CASE step = "loads"        -> "fence"
      [] step = "answer_fence" -> "answer_brace"
      [] step = "answer_brace" -> "fence"
      [] step = "fence"        -> "brace"
      [] step = "brace"        -> "empty"

\* the attempt that follows a failed one (lines 17-19, 29, 36-37, 44)
StepAfter(step, text) ==
    CASE step = "loads"        -> IF AnswerMatch(text).found THEN "answer_fence" ELSE "fence"
      [] step = "answer_fence" -> "answer_brace"
      [] step = "answer_brace" -> "fence"
      [] step = "fence"        -> "brace"
      [] step = "brace"        -> "empty"

\* one attempt: return the parsed value, or go on to the next attempt
ExtractTry(step, r) ==
    /\ call.fn = "extract_json" /\ call.status = "running"
    /\ call.step = step
    /\ IF r.ok
       THEN call' = [call EXCEPT !.tried = Append(@, step), !.status = "returned",
                                 !.result = r.val]
       ELSE call' = [call EXCEPT !.tried = Append(@, step),
                                 !.step = StepAfter(step, call.text)]
    /\ UNCHANGED <<pc, response, agent_logger, files, credential, scopes, handles, pending,
                   locals, raw, parsed, attempt, hist, exc_log, outcome, retry>>

\* lines 15-17
ExtractLoads == call.fn = "extract_json" /\ ExtractTry("loads", json_loads(call.text))

\* lines 19-28
ExtractAnswerFence ==
    /\ call.fn = "extract_json"
    /\ ExtractTry("answer_fence", LoadsGroup(FenceMatch(AnswerMatch(call.text).grp)))

\* lines 29-35
ExtractAnswerBrace ==
    /\ call.fn = "extract_json"
    /\ ExtractTry("answer_brace", LoadsGroup(BraceMatch(AnswerMatch(call.text).grp)))

\* lines 37-43
ExtractFence == call.fn = "extract_json" /\ ExtractTry("fence", LoadsGroup(FenceMatch(call.text)))

\* lines 44-50
ExtractBrace == call.fn = "extract_json" /\ ExtractTry("brace", LoadsGroup(BraceMatch(call.text)))

\* line 51
ExtractEmpty ==
    call.fn = "extract_json" /\ ExtractTry("empty", [ok |-> TRUE, val |-> EmptyDict])

ExtractNext ==
    \/ ExtractLoads \/ ExtractAnswerFence \/ ExtractAnswerBrace
    \/ ExtractFence \/ ExtractBrace \/ ExtractEmpty

ExtractSpec == ExtractInit /\ [][ExtractNext]_vars

(***************************************************************************)
(* An AgentLogger used on its own (src/src/services/logger.py): its        *)
(* methods called in any order.  call.log is the history of the calls:     *)
(* [op, raised, before, after], before and after being [logger, files].    *)
(***************************************************************************)
LoggerInit ==
    /\ RunInit /\ retry = NoRetry
    /\ call = [fn |-> "AgentLogger", logger |-> NewLogger, files |-> << >>, log |-> << >>]

LoggerCalled(op, storage, raised, lg, fs) ==
    /\ call.fn = "AgentLogger"
    /\ Len(call.log) < MaxLogOps
    /\ call' = [call EXCEPT
                  !.logger = lg, !.files = fs,
                  !.log = Append(@, [op |-> op, storage |-> storage, raised |-> raised,
                                     before |-> [logger |-> call.logger, files |-> call.files],
                                     after  |-> [logger |-> lg, files |-> fs]])]
    /\ UNCHANGED <<pc, response, agent_logger, files, credential, scopes, handles, pending,
                   locals, raw, parsed, attempt, hist, exc_log, outcome, retry>>

\* lines 31-72
LoggerStart ==
    /\ call.fn = "AgentLogger"
    /\ \E storage \in StartStorage :
          LET r == start_session(call.logger, call.files, <<"anonymous">>, <<"pregunta">>,
                                 storage)
          IN  LoggerCalled("start", storage, IF r.raised THEN "OSError" ELSE "none", r.logger, r.files)

\* lines 74-152
LoggerLog ==
    /\ call.fn = "AgentLogger"
    /\ \E agent_name \in {"IntentAgent", "SQLAgent"}, storage \in WriteStorage :
          LET r == log_agent_response(call.logger, call.files, agent_name, TIntentRv,
                                      extract_json(TIntentRv), <<"pregunta">>, storage)
          IN  LoggerCalled("log", storage, r.raised, r.logger, r.files)

\* lines 154-197
LoggerEnd ==
    /\ call.fn = "AgentLogger"
    /\ \E success \in BOOLEAN, storage \in WriteStorage :
          LET r == end_session(call.logger, call.files, success, <<"fin">>, << >>, storage)
          IN  LoggerCalled("end", storage, IF r.raised THEN "OSError" ELSE "none", call.logger, r.files)

LoggerNext == LoggerStart \/ LoggerLog \/ LoggerEnd

LoggerSpec == LoggerInit /\ [][LoggerNext]_vars

(***************************************************************************)
(* The AgentLoggers of two concurrent runs (src/src/services/logger.py):   *)
(* one logger per run, the same base directory (the default of __init__,   *)
(* lines 21-25), one clock.  call.log is the history of the calls:         *)
(* [run, op, now, raised, before, after], before and after being           *)
(* [loggers, files].                                                       *)
(***************************************************************************)
Runs == {1, 2}

SecondText(n) == <<"2026-01-01_00-00-0", ToString(n)>>

\* what run r passes to its logger
RunText(r) == IF r = 1 THEN <<"uno">> ELSE <<"dos">>

SharedInit ==
    /\ RunInit /\ retry = NoRetry
    /\ call = [fn |-> "TwoLoggers", loggers |-> [r \in Runs |-> NewLogger], files |-> << >>,
               sec |-> 1, log |-> << >>]

SharedCalled(r, op, now, raised, lg, fs) ==
    /\ call.fn = "TwoLoggers"
    /\ Len(call.log) < MaxSharedOps
    /\ call' = [call EXCEPT
                  !.loggers[r] = lg, !.files = fs,
                  !.log = Append(@, [run |-> r, op |-> op, now |-> now, raised |-> raised,
                                     before |-> [loggers |-> call.loggers, files |-> call.files],
                                     after  |-> [loggers |-> [call.loggers EXCEPT ![r] = lg],
                                                 files |-> fs]])]
    /\ UNCHANGED <<pc, response, agent_logger, files, credential, scopes, handles, pending,
                   locals, raw, parsed, attempt, hist, exc_log, outcome, retry>>

\* the next second begins
TickSecond ==
    /\ call.fn = "TwoLoggers"
    /\ call.sec < MaxSecond
    /\ call' = [call EXCEPT !.sec = @ + 1]
    /\ UNCHANGED <<pc, response, agent_logger, files, credential, scopes, handles, pending,
                   locals, raw, parsed, attempt, hist, exc_log, outcome, retry>>

\* the times of the current second at which a call may be made; only
\* start_session uses the time it reads
Now == {[second |-> SecondText(call.sec), micro |-> m] : m \in {"000000", "500000"}}

\* lines 31-72, by one of the runs
SharedStart ==
    /\ call.fn = "TwoLoggers"
    /\ \E r \in Runs, now \in Now :
          LET res == start_session_at(call.loggers[r], call.files, <<"anonymous">>, RunText(r),
                                      "ok", now)
          IN  SharedCalled(r, "start", now, "none", res.logger, res.files)

\* lines 74-152, by one of the runs
SharedLog ==
    /\ call.fn = "TwoLoggers"
    /\ \E r \in Runs, now \in {[second |-> SecondText(call.sec), micro |-> "000000"]} :
          LET res == log_agent_response(call.loggers[r], call.files, "SQLAgent", RunText(r),
                                        EmptyDict, RunText(r), "ok")
          IN  SharedCalled(r, "log", now, res.raised, res.logger, res.files)

\* lines 154-197, by one of the runs
SharedEnd ==
    /\ call.fn = "TwoLoggers"
    /\ \E r \in Runs, now \in {[second |-> SecondText(call.sec), micro |-> "000000"]} :
          LET res == end_session(call.loggers[r], call.files, TRUE, RunText(r), << >>, "ok")
          IN  SharedCalled(r, "end", now, "none", call.loggers[r], res.files)

SharedNext == TickSecond \/ SharedStart \/ SharedLog \/ SharedEnd

SharedSpec == SharedInit /\ [][SharedNext]_vars

(***************************************************************************)
(* Properties of run_workflow.                                             *)
(***************************************************************************)
Returned == outcome = "returned"

Range(seq) == {seq[i] : i \in DOMAIN seq}

\* the agents that have an entry in agent_outputs
Logged(a) == \E i \in DOMAIN response.agent_outputs : response.agent_outputs[i].agent_name = a

\* the audit records of agent a in the storage
AuditRecords(a) ==
    {f \in DOMAIN files : /\ f[2] > 0 /\ files[f] # EmptyFile
                           /\ "cut" \notin DOMAIN files[f]
                           /\ files[f].agent_name = a /\ files[f].raw_response # None}

\* the SQL output was extracted and is not a record with the key resultados
SqlLacksResults ==
    sql_json # Unbound /\ (sql_json.t # "obj" \/ "resultados" \notin DOMAIN sql_json.v)

\* C1: when the JSON extracted from the SQL output is empty or lacks
\* `resultados`, success is false, sql_data, viz_data and formatted_response are
\* null (in every state, so also in the returned response), and the
\* visualization, chart-image and formatting agents are never invoked.
C1_SqlFailureShortCircuits ==
    SqlLacksResults =>
        /\ ~response.success
        /\ response.sql_data = None
        /\ response.viz_data = None
        /\ response.formatted_response = None
        /\ \A a \in SingleAgents : hist.calls[a] = 0 /\ hist.execs[a] = 0
        /\ \A g \in DOMAIN hist.stages : hist.stages[g] = 0

\* a run returned after a SQL output that is a non-empty record without resultados
C1_Witness ==
    /\ Returned
    /\ SqlLacksResults
    /\ sql_json.t = "obj" /\ DOMAIN sql_json.v # {}
    /\ response.message = raw_sql_result
    /\ response.errors = <<<<"SQLAgent could not complete the query successfully">>>>

\* C2: the visualization stage is entered (the branch of line 184 is taken) iff
\* the SQL result validated and intent = "requiere_visualizacion"; it is entered
\* at most once, VizAgent is called only inside it, and exactly once as soon as
\* the stage's model client is open and the call has started.
C2_VizGateRespectsIntent ==
    /\ hist.stages["viz"] <= 1
    /\ hist.calls["VizAgent"] <= hist.stages["viz"]
    /\ hist.stages["viz"] = 1 =>
          response.sql_data # None /\ intent = JStr(<<"requiere_visualizacion">>)
    /\ (response.sql_data # None /\ pc # "viz_gate") =>
          (hist.stages["viz"] = 1 <=> intent = JStr(<<"requiere_visualizacion">>))
    /\ (handles["viz_client"] \notin {"unopened", "enter_failed"}
        /\ ~(pc = "viz_run" /\ attempt = 0)) =>
          hist.calls["VizAgent"] = 1

\* a successful run with intent requiere_visualizacion that called VizAgent once
C2_Witness ==
    /\ Returned
    /\ response.success
    /\ response.intent = JStr(<<"requiere_visualizacion">>)
    /\ hist.calls["VizAgent"] = 1
    /\ Logged("VizAgent")

\* the visualization output has no usable run_id
VizNoRunId ==
    LET vj == parsed["VizAgent"] IN
    vj.t # "obj" \/ "run_id" \notin DOMAIN vj.v \/ ~Truthy(vj.v["run_id"])

\* C3: the chart-image stage is entered, and GraphExecutor called, only when
\* viz_data exists with non-empty run_id and tipo_grafico; when the
\* visualization output has no run_id it is never entered.
C3_ChartNeedsRunIdAndTipo ==
    /\ hist.stages["chart"] <= 1
    /\ hist.calls["GraphExecutor"] <= hist.stages["chart"]
    /\ hist.stages["chart"] = 1 =>
          /\ response.viz_data # None
          /\ Truthy(response.viz_data.run_id)
          /\ Truthy(response.viz_data.tipo_grafico)
    /\ VizNoRunId => hist.stages["chart"] = 0 /\ hist.execs["GraphExecutor"] = 0

\* a run whose intent required visualization, whose VizAgent output validated
\* without run_id, and which went on to formatting without the chart stage
C3_Witness ==
    /\ Returned
    /\ intent = JStr(<<"requiere_visualizacion">>)
    /\ response.viz_data # None
    /\ response.viz_data.run_id = None
    /\ hist.stages["chart"] = 0
    /\ Logged("FormatAgent")

\* C4: in every step of every run, the visualization stage starts (and VizAgent
\* executes) only after the SQL result validated, the chart-image stage only
\* after the visualization stage produced a run_id, the formatting stage only
\* after the SQL stage succeeded.
C4_StageOrdering ==
    [][ /\ (\/ hist'.stages["viz"] > hist.stages["viz"]
            \/ hist'.execs["VizAgent"] > hist.execs["VizAgent"]) =>
               response.sql_data # None /\ response.success
        /\ (\/ hist'.stages["chart"] > hist.stages["chart"]
            \/ hist'.execs["GraphExecutor"] > hist.execs["GraphExecutor"]) =>
               /\ Logged("VizAgent")
               /\ ~VizNoRunId
               /\ response.viz_data # None
               /\ response.viz_data.run_id = parsed["VizAgent"].v["run_id"]
        /\ (\/ hist'.stages["format"] > hist.stages["format"]
            \/ hist'.execs["FormatAgent"] > hist.execs["FormatAgent"]) =>
               response.sql_data # None /\ response.success
      ]_vars

\* a run in which the three later stages all started
C4_Witness ==
    /\ Returned
    /\ \A g \in DOMAIN hist.stages : hist.stages[g] = 1
    /\ \A a \in Agents : hist.execs[a] >= 1

\* C5: in every state of a run, success = true implies sql_data is not null.
C5_SuccessImpliesSqlData == response.success => response.sql_data # None

\* a returned response with success = true
C5_Witness == Returned /\ response.success /\ response.sql_data # None

\* C6: a returned run that completed the formatting stage with no unhandled
\* exception has success = true whatever the optional stages gave; a returned
\* success = false comes only with a SQL-stage failure (no validated SQL result,
\* which includes a Stage 1 without messages) or an unhandled exception.
C6_SuccessAtEnd ==
    Returned =>
        /\ (Logged("FormatAgent") /\ exc_log = << >>) => response.success
        /\ ~response.success => (response.sql_data = None \/ exc_log # << >>)

\* a returned success although the visualization gave no chart URL and the
\* formatting output did not parse
C6_Witness ==
    /\ Returned
    /\ response.success
    /\ hist.stages["viz"] = 1
    /\ response.viz_data = None
    /\ Logged("FormatAgent")
    /\ response.formatted_response = None

\* C7 (the claim as stated): when any exception was raised outside a stage's
\* own try/except, the run returns with success = false, that exception's text
\* in message and in errors, the session ended and the credential closed.
C7_EveryExceptionHandled ==
    (pc = "done" /\ exc_log # << >>) =>
        LET e == exc_log[Len(exc_log)] IN
        /\ Returned
        /\ ~response.success
        /\ response.message = <<"System error: ">> \o e
        /\ e \in Range(response.errors)
        /\ credential = "closed"
        /\ Len(files[SessionFile(Timestamp)]) = 2

\* C8 (the claim as stated): run_workflow always returns a response and never
\* lets an exception escape.
C8_NeverRaises == pc = "done" => Returned

\* C9 (the claim as stated): a failure of the audit storage neither aborts the
\* run nor reaches the response.
C9_StorageFailureHarmless ==
    ErrStorage \in Range(exc_log) =>
        /\ outcome # "raised"
        /\ ErrStorage \notin Range(response.errors)
        /\ response.message # <<"System error: ">> \o ErrStorage

\* C10 (the claim as stated): when the run ends, every agent invoked has exactly
\* one audit record with its name and a non-null raw response, and the audit
\* records are as many as the invocations.
C10_AuditComplete ==
    pc = "done" => \A a \in Agents : Cardinality(AuditRecords(a)) = hist.calls[a]

\* C11 (the claim as stated): a credential acquired by the run has had close()
\* called on it when the run ends, on every exit path, also when end_session
\* fails.
C11_CredentialClosedOnce ==
    (pc = "done" /\ credential # "absent") => credential \in {"closed", "close_failed"}

\* C12 (the claim as stated): once the try block is left (teardown, end of the
\* run) every remote-tool channel and every model-client handle the run opened
\* is closed.
C12_AllClosed ==
    pc \in {"finally", "close_credential", "done"} =>
        \A h \in Handles : handles[h] \in {"unopened", "enter_failed", "closed"}

\* C12 (amended): every handle the run entered is left through its __aexit__
\* before the except and finally blocks run, on every exit path (end of the
\* block, return, exception, cancellation): once the try block is left no
\* handle is open and none is entered, and while the block runs the open
\* handles are exactly the entered scopes; a handle that was left is closed
\* unless its own __aexit__ raised or was cancelled.
C12_HandlesExited ==
    /\ [](\A h \in Handles : handles[h] = "open" <=> h \in Range(scopes))
    /\ [](pc \in {"finally", "close_credential", "done"} =>
            /\ scopes = << >>
            /\ \A h \in Handles :
                  handles[h] \in {"unopened", "enter_failed", "closed", "close_failed"})
    /\ [][\A h \in Handles :
            /\ handles'[h] \in {"closed", "close_failed"} /\ handles[h] # handles'[h] =>
                  /\ handles[h] = "open" /\ scopes # << >> /\ h = Top(scopes)
                  /\ scopes' = Pop(scopes)
            /\ handles[h] \in {"closed", "close_failed", "enter_failed"} =>
                  handles'[h] = handles[h]]_vars

\* a run returned after the SQL-failure early return, taken inside the scope of
\* the remote-tool channel, which was closed
C12_Witness ==
    /\ Returned
    /\ <<"SQLAgent could not complete the query successfully">> \in Range(response.errors)
    /\ handles["mcp"] = "closed"
    /\ handles["sql_client"] = "closed"

\* C13 (the claim as stated, for the runs in which nothing but the handling
\* of the SQL output failed): when the run returns without a validated SQL result,
\* success is false, message is the SQL agent's raw text, and errors holds the
\* validation detail when the JSON has `resultados`, the generic entry when it
\* has not.
C13_SqlFailureMessage ==
    (/\ Returned
     /\ sql_json # Unbound
     /\ response.sql_data = None
     /\ \A i \in DOMAIN exc_log : exc_log[i] \in {<<"TypeError">>, ErrAgentOutput}) =>
        /\ ~response.success
        /\ response.message = raw_sql_result
        /\ IF sql_json.t = "obj" /\ "resultados" \in DOMAIN sql_json.v
           THEN \E e \in Range(response.errors) : e[1] = "Error parsing SQL results: "
           ELSE <<"SQLAgent could not complete the query successfully">>
                    \in Range(response.errors)

\* the step of lines 94-113: the collected messages are reconciled
ReconcileStep == pc = "stream" /\ pc' = "log_intent"

\* the texts of the messages of msgs whose author_name is in authors
TextsBy(msgs, authors) ==
    {msgs[i].text.v : i \in {j \in DOMAIN msgs : msgs[j].author_name \in authors}}

Authors == {m.author_name : m \in Stage1Msgs}

\* C14 (the claim as stated): the intent result is the text of a message tagged
\* IntentAgent when there is one, and never the text of a message tagged
\* SQLAgent alone; the same for the SQL result with the tags exchanged.
C14_IdentityRespected ==
    [][ReconcileStep =>
          /\ raw_intent' \in
                IF TextsBy(messages, {"IntentAgent"}) # {}
                THEN TextsBy(messages, {"IntentAgent"})
                ELSE TextsBy(messages, Authors \ {"SQLAgent"})
          /\ raw_sql_result' \in
                IF TextsBy(messages, {"SQLAgent"}) # {}
                THEN TextsBy(messages, {"SQLAgent"})
                ELSE TextsBy(messages, Authors \ {"IntentAgent"})]_vars

\* each of the two agents has exactly one message tagged with its identity
OneEach(msgs) ==
    /\ Cardinality({i \in DOMAIN msgs : msgs[i].author_name = "IntentAgent"}) = 1
    /\ Cardinality({i \in DOMAIN msgs : msgs[i].author_name = "SQLAgent"}) = 1

Permuted(msgs, f) == [i \in DOMAIN msgs |-> msgs[f[i]]]

\* C15: when each agent produced one message tagged with its identity, the
\* texts chosen are those that every other arrival order of the same messages
\* gives.
C15_OrderIndependent ==
    [][(ReconcileStep /\ OneEach(messages)) =>
          \A f \in Permutations(DOMAIN messages) :
              Reconcile(Permuted(messages, f)) =
                  [raw_intent |-> raw_intent', raw_sql_result |-> raw_sql_result']]_vars

\* the SQL agent's message arrived first, and each text went to its own agent
C15_Witness ==
    /\ pc = "log_intent"
    /\ OneEach(messages)
    /\ messages[1].author_name = "SQLAgent"
    /\ raw_intent = messages[2].text.v
    /\ raw_sql_result = messages[1].text.v
    /\ raw_intent # raw_sql_result

\* identity matching does not give both results
IdentityIncomplete(msgs) ==
    TextsBy(msgs, {"IntentAgent"}) = {} \/ TextsBy(msgs, {"SQLAgent"}) = {}

\* C16: when identity matching does not give both results and at least two
\* non-empty messages arrived, the first is the intent output and the second
\* the SQL output.
C16_OrdinalFallback ==
    [][(ReconcileStep /\ IdentityIncomplete(messages) /\ Len(messages) >= 2) =>
          /\ raw_intent' = messages[1].text.v
          /\ raw_sql_result' = messages[2].text.v]_vars

\* two messages without a recognised author were reconciled by their order
C16_Witness ==
    /\ pc = "log_intent"
    /\ Len(messages) >= 2
    /\ IdentityIncomplete(messages)
    /\ messages[1].author_name = ""
    /\ raw_intent = messages[1].text.v
    /\ raw_sql_result = messages[2].text.v
    /\ raw_intent # raw_sql_result

(***************************************************************************)
(* Properties of run_with_retry.                                           *)
(***************************************************************************)
\* every error the operation raised was a rate-limit error
AllRateLimited == \A i \in DOMAIN retry.raised : is_rate_limit(retry.raised[i])

\* C17 (the claim as stated): the operation is called at most max_retries
\* times, for every max_retries >= 0; when every attempt fails with a rate-limit
\* error (retries enabled) the last attempt's error is raised after exactly
\* max_retries calls; a successful call is the last one and its result is
\* returned.
C17_AtMostMaxRetries ==
    retry.status # "idle" =>
        /\ retry.calls <= retry.max_retries
        /\ (retry.status = "raised" /\ retry.retry_on_rate_limit /\ AllRateLimited) =>
              /\ retry.calls = retry.max_retries
              /\ retry.max_retries > 0 => retry.result = retry.raised[retry.calls]
        /\ retry.status = "returned" =>
              /\ retry.calls = Len(retry.raised) + 1
              /\ retry.result = JStr(<<"texto">>)

\* C17 (amended): the operation is called at most max_retries times, for every
\* max_retries >= 0; when every attempt fails with a rate-limit error (retries
\* enabled) and the task is not cancelled while it waits, the last attempt's
\* error is raised after exactly max_retries calls; a cancellation during a
\* wait raises CancelledError after the calls made so far, fewer than
\* max_retries, with no further call; a successful call is the last one and
\* its result is returned.
C17_UnlessCancelled ==
    retry.status # "idle" =>
        /\ retry.calls <= retry.max_retries
        /\ (retry.status = "raised" /\ retry.retry_on_rate_limit /\ AllRateLimited) =>
              IF retry.result = ErrCancelled
              THEN /\ retry.calls < retry.max_retries
                   /\ Len(retry.sleeps) = retry.calls
              ELSE /\ retry.calls = retry.max_retries
                   /\ retry.max_retries > 0 => retry.result = retry.raised[retry.calls]
        /\ retry.status = "returned" =>
              /\ retry.calls = Len(retry.raised) + 1
              /\ retry.result = JStr(<<"texto">>)

\* three calls, each failed with a rate-limit error, the third error raised
C17_Witness ==
    /\ retry.status = "raised"
    /\ retry.max_retries = 3
    /\ retry.retry_on_rate_limit
    /\ AllRateLimited
    /\ retry.calls = 3
    /\ retry.result = ErrRateWait
    /\ retry.raised[1] # ErrRateWait

\* C18: an error without a rate-limit indicator, or any error when
\* retry_on_rate_limit is false, is the last one raised: no call follows it and
\* run_with_retry raises that same error.
C18_OtherErrorsTerminal ==
    retry.status # "idle" =>
        \A i \in DOMAIN retry.raised :
            (~is_rate_limit(retry.raised[i]) \/ ~retry.retry_on_rate_limit) =>
                /\ i = Len(retry.raised)
                /\ retry.calls = i
                /\ retry.status = "raised"
                /\ retry.result = retry.raised[i]

\* an operation that failed once, with a timeout naming seconds, was called once
\* although three calls were allowed
C18_Witness ==
    /\ retry.status = "raised"
    /\ retry.max_retries = 3
    /\ retry.retry_on_rate_limit
    /\ retry.raised = <<ErrTimeout>>
    /\ retry.calls = 1
    /\ retry.sleeps = << >>

\* the number written by the tokens i..j of e, read from its last digit
RECURSIVE Decimal(_, _, _)
Decimal(e, i, j) ==
    IF j < i THEN 0
    ELSE IF e[j] \in DOMAIN DigitTail THEN DigitTail[e[j]]
    ELSE DigitTok[e[j]] + DigitShift(e[j]) * Decimal(e, i, j - 1)

\* the numbers n for which the error text says "n second(s)": a whole number
\* (no digit before it, none after it), whitespace or none, the word
SaidSeconds(e) ==
    {Decimal(e, i, j) : <<i, j>> \in
        {p \in (DOMAIN e) \X (DOMAIN e) :
            /\ p[1] <= p[2]
            /\ \A k \in (p[1] + 1)..p[2] : e[k] \in DOMAIN DigitTok
            /\ \/ e[p[1]] \in DOMAIN DigitTail
               \/ /\ e[p[1]] \in DOMAIN DigitTok
                  /\ p[1] > 1 => e[p[1] - 1] \notin (DOMAIN DigitTok \cup DOMAIN DigitTail)
            /\ \E w \in (p[2] + 1)..Len(e) :
                  /\ e[w] \in SecondTok
                  /\ \A k \in (p[2] + 1)..(w - 1) : e[k] \in WsTok}}

\* C19: a wait is begun only after a rate-limit error of an attempt that is not
\* the last permitted one; the wait after zero-based attempt a is an n of
\* "n second(s)" in the error text, else initial_delay * backoff_factor^a;
\* every call but the first follows a wait.
C19_WaitTime ==
    retry.status # "idle" =>
        /\ \A i \in DOMAIN retry.sleeps :
              /\ i < retry.max_retries
              /\ i <= Len(retry.raised) /\ is_rate_limit(retry.raised[i])
              /\ IF SaidSeconds(retry.raised[i]) # {}
                 THEN retry.sleeps[i] \in SaidSeconds(retry.raised[i])
                 ELSE retry.sleeps[i] =
                          retry.initial_delay * Pow(retry.backoff_factor, i - 1)
        /\ Len(retry.sleeps) <= retry.calls
        /\ retry.calls <= Len(retry.sleeps) + 1

\* a wait of the 5 seconds the error named, then an exponential wait for
\* attempt 1
C19_Witness ==
    /\ Len(retry.sleeps) = 2
    /\ retry.raised[1] = ErrRateWait /\ retry.sleeps[1] = 5
    /\ retry.raised[2] = ErrRate /\ retry.sleeps[2] = 4
    /\ retry.initial_delay = 2
    /\ retry.calls = 3

\* the agents whose execution the step at pc runs
AgentsAt(at) ==
    IF at = "stream" THEN {"IntentAgent", "SQLAgent"}
    ELSE IF at \in DOMAIN ExecAt THEN {RunAt[ExecAt[at]].agent}
    ELSE {}

\* C20 (the claim as stated): when a rate-limit error of the agent runtime
\* becomes an error of the run, the agents that were running have been
\* executed as many times as the configured limit allows.
C20_RateLimitRetried ==
    [][(/\ AgentsAt(pc) # {}
        /\ Len(exc_log') = Len(exc_log) + 1
        /\ is_rate_limit(exc_log'[Len(exc_log')])) =>
          \A a \in AgentsAt(pc) : hist'.execs[a] = AgentMaxRetries]_vars

(***************************************************************************)
(* Properties of the optional stages.                                      *)
(***************************************************************************)
\* the visualization output was parsed and is a JSON object that is no VizResult
VizInvalid ==
    /\ parsed["VizAgent"] # Unbound
    /\ parsed["VizAgent"].t = "obj"
    /\ BadFields(VizResult, parsed["VizAgent"]) # {}

\* C22 (the claim as stated, for the runs in which nothing but the validation
\* of the visualization output failed): when the visualization output does
\* not validate as a VizResult, viz_data stays null, the formatting stage runs
\* and the run ends with success = true.
C22_VizInvalidRecovered ==
    (/\ pc = "done" /\ Returned
     /\ VizInvalid
     /\ \A i \in DOMAIN exc_log : exc_log[i] = <<"validation error for", "VizResult">>) =>
        /\ response.viz_data = None
        /\ hist.stages["format"] = 1
        /\ response.success

\* C23: the formatting stage is entered at most once, and exactly once in every
\* run that returned with a validated SQL result and no exception raised,
\* whatever the visualization stage did; it is never entered without a
\* validated SQL result.
C23_FormatRunsOnce ==
    /\ hist.stages["format"] <= 1
    /\ hist.calls["FormatAgent"] <= hist.stages["format"]
    /\ hist.stages["format"] = 1 => response.sql_data # None
    /\ (Returned /\ response.sql_data # None /\ exc_log = << >>) =>
          hist.stages["format"] = 1 /\ hist.calls["FormatAgent"] = 1

\* the formatting agent ran in a run whose visualization stage was skipped
C23_Witness ==
    /\ Returned
    /\ exc_log = << >>
    /\ hist.stages["viz"] = 0
    /\ hist.stages["format"] = 1
    /\ hist.calls["FormatAgent"] = 1

\* the text without its fenced-code wrapper, as the claim describes it: the
\* first line goes when it opens a fence, the last line goes when it is a
\* fence, and no other line goes
ClaimedUnwrap(text) ==
    LET m   == Strip(text)
        nls == {i \in DOMAIN m : m[i] = "nl"}
        lo  == CHOOSE a \in nls : \A b \in nls : a <= b
        hi  == CHOOSE a \in nls : \A b \in nls : b <= a
        a   == IF nls # {} /\ m[1] = "fence" THEN lo + 1 ELSE 1
        b   == IF nls # {} /\ hi < Len(m) /\ m[hi + 1] = "fence" THEN hi - 1 ELSE Len(m)
    IN  SubSeq(m, a, b)

\* the formatting output parsed into a valid FormattedResponse
FormatParsed ==
    /\ Truthy(parsed["FormatAgent"])
    /\ Validate(FormattedResponse, "FormattedResponse", parsed["FormatAgent"]).ok

\* C24 (the claim as stated): after the formatting stage of a run that raised
\* nothing, a parsed output sets formatted_response and leaves the SQL resumen
\* as message; otherwise formatted_response is null and message is the raw
\* text without its fence wrapper, no other line dropped, or the resumen when
\* that text is empty.
C24_FormatFallback ==
    (/\ pc = "done" /\ Returned
     /\ exc_log = << >>
     /\ Logged("FormatAgent")) =>
        IF FormatParsed
        THEN /\ response.formatted_response # None
             /\ response.message = response.sql_data.resumen.v
        ELSE /\ response.formatted_response = None
             /\ response.message =
                   IF ClaimedUnwrap(raw["FormatAgent"]) # << >>
                   THEN ClaimedUnwrap(raw["FormatAgent"])
                   ELSE response.sql_data.resumen.v

\* the VizResult the visualization stage stored (lines 227-235)
VizStored == VizParse(parsed["VizAgent"]).viz_data

\* the chart-image output names no image reference: no key, or a null value
NoImageRef ==
    LET gj == parsed["GraphExecutor"] IN
    gj.t = "obj" /\ ("image_url" \notin DOMAIN gj.v \/ gj.v["image_url"] = None)

\* C25 (the claim as stated, for the runs in which nothing failed outside the
\* merge): after the chart-image stage every field of viz_data but image_url
\* has the value the visualization stage gave it; when the stage returned no
\* image reference viz_data is unchanged and the run goes on to success.
C25_MergeFrame ==
    (/\ pc = "done" /\ Returned
     /\ Logged("GraphExecutor")
     /\ \A i \in DOMAIN exc_log : exc_log[i] = <<"TypeError">>) =>
        /\ \A f \in DOMAIN VizStored \ {"image_url"} : response.viz_data[f] = VizStored[f]
        /\ NoImageRef => (response.viz_data = VizStored /\ response.success)

\* C26: viz_data is set only when the intent is requiere_visualizacion, the SQL
\* result was validated, and the visualization output is a JSON object with a
\* powerbi_url that validates as a VizResult.
C26_VizDataOnlyWhenParsed ==
    response.viz_data # None =>
        /\ intent = JStr(<<"requiere_visualizacion">>)
        /\ response.sql_data # None
        /\ parsed["VizAgent"] # Unbound
        /\ parsed["VizAgent"].t = "obj"
        /\ "powerbi_url" \in DOMAIN parsed["VizAgent"].v
        /\ BadFields(VizResult, parsed["VizAgent"]) = {}

\* a returned response with a VizResult that has a chart URL and no image
C26_Witness ==
    /\ Returned
    /\ response.viz_data # None
    /\ response.viz_data.powerbi_url = JStr(<<"https://", "pbi">>)
    /\ response.viz_data.image_url = None
    /\ response.intent = JStr(<<"requiere_visualizacion">>)

\* C29 (the claim as stated, for the runs without a storage failure): when the
\* run ends after start_session succeeded, the session file holds the header
\* and exactly one summary, whose status is the success of the response.
C29_SessionEnded ==
    (/\ pc = "done"
     /\ SessionFile(Timestamp) \in DOMAIN files
     /\ ErrStorage \notin Range(exc_log)) =>
        /\ Len(files[SessionFile(Timestamp)]) = 2
        /\ files[SessionFile(Timestamp)][2].status =
              IF response.success THEN "Exitoso" ELSE "Con errores"

(***************************************************************************)
(* Properties of _execute_agent.                                           *)
(***************************************************************************)
\* the messages of the output events among the first n events, in stream order
RECURSIVE OutputMessages(_, _)
OutputMessages(stream, n) ==
    IF n = 0 THEN << >>
    ELSE OutputMessages(stream, n - 1)
         \o (IF stream[n].output THEN stream[n].data ELSE << >>)

\* the text of the last message with a non-empty text, the empty string if none
LastNonEmptyText(msgs) ==
    LET full == {i \in DOMAIN msgs : msgs[i].text.t = "str" /\ msgs[i].text.v # << >>}
    IN  IF full = {} THEN << >>
        ELSE msgs[CHOOSE i \in full : \A j \in full : j <= i].text.v

\* C21: after every event last_text is the text of the last message with a
\* non-empty text among the output events read so far (the empty string when
\* there is none), and the call returns that text for the whole stream.
C21_LastNonEmptyText ==
    call.fn = "_execute_agent" =>
        /\ call.last_text = LastNonEmptyText(OutputMessages(call.stream, call.pos))
        /\ call.status = "returned" =>
              call.result = JStr(LastNonEmptyText(OutputMessages(call.stream,
                                                                  Len(call.stream))))

\* a returned call whose stream has a non-empty text followed, in a later
\* event, by a message with an empty text
C21_Witness ==
    /\ call.fn = "_execute_agent"
    /\ call.status = "returned"
    /\ call.result = JStr(<<"uno">>)
    /\ Len(call.stream) = 2
    /\ call.stream[1] = [output |-> TRUE, data |-> <<[text |-> JStr(<<"uno">>)]>>]
    /\ call.stream[2] = [output |-> TRUE, data |-> <<[text |-> JStr(<< >>)], [text |-> None]>>]

(***************************************************************************)
(* Properties of extract_json.                                             *)
(***************************************************************************)
ExtractReturned == call.fn = "extract_json" /\ call.status = "returned"

\* C27 (the claim as stated): whatever the text, the value extract_json
\* returns is a record, and the empty record when the text holds no JSON
\* object that parses.
C27_AlwaysRecord ==
    ExtractReturned =>
        /\ call.result.t = "obj"
        /\ call.tried[Len(call.tried)] = "empty" => call.result = EmptyDict

\* what an attempt parses: [ok, val]
Candidate(step, text) ==
    CASE step = "loads"        -> json_loads(text)
      [] step = "answer_fence" -> LoadsGroup(FenceMatch(AnswerMatch(text).grp))
      [] step = "answer_brace" -> LoadsGroup(BraceMatch(AnswerMatch(text).grp))
      [] step = "fence"        -> LoadsGroup(FenceMatch(text))
      [] step = "brace"        -> LoadsGroup(BraceMatch(text))
      [] step = "empty"        -> [ok |-> TRUE, val |-> EmptyDict]

\* the first attempt of an order that parses
FirstParsing(order, text) ==
    CHOOSE k \in DOMAIN order :
        /\ Candidate(order[k], text).ok
        /\ \A j \in 1..(k - 1) : ~Candidate(order[j], text).ok

\* the order of the claim: whole text, first fenced block, braces, empty record
ClaimedOrder == <<"loads", "fence", "brace", "empty">>

\* the order with the answer section, when the text has one, before the fenced block
AnswerFirstOrder(text) ==
    IF AnswerMatch(text).found
    THEN <<"loads", "answer_fence", "answer_brace", "fence", "brace", "empty">>
    ELSE ClaimedOrder

\* C28 (the claim as stated): the value returned is what the first parsing
\* attempt yields in the order whole text, first fenced block, first brace to
\* last brace, empty record, nothing else taking precedence.
C28_ClaimedOrder ==
    ExtractReturned =>
        call.result = Candidate(ClaimedOrder[FirstParsing(ClaimedOrder, call.text)],
                                call.text).val

\* C28 (amended): the attempts are made in the order whole text, then, when the
\* text has an answer section, the first fenced block in it and its first
\* brace to its last brace, then the first fenced block of the text, the
\* first brace to the last brace, the empty record; they stop at the first
\* that parses, whose value is returned; and in a text without an answer
\* section a json-tagged fenced object yields the record of the unwrapped object.
C28_AnswerFirstOrder ==
    ExtractReturned =>
        LET order == AnswerFirstOrder(call.text)
            k     == FirstParsing(order, call.text)
        IN  /\ call.tried = SubSeq(order, 1, k)
            /\ call.result = Candidate(order[k], call.text).val
            /\ \A obj \in {<<"{", "intent:np", "}">>} :
                  call.text = Fenced(<<"json">>, obj) => call.result = json_loads(obj).val

\* a text with a fenced object before an answer section holding another
\* object: the answer section's object is returned
C28_Witness ==
    /\ ExtractReturned
    /\ call.text = Fenced(<<"json">>, <<"{", "intent:np", "}">>)
                   \o <<"<answer>", "{", "intent:rv", "}", "</answer>">>
    /\ call.tried = <<"loads", "answer_fence", "answer_brace">>
    /\ call.result = JObj([k \in {"intent"} |-> JStr(<<"requiere_visualizacion">>)])

(***************************************************************************)
(* Properties of the AgentLogger.                                          *)
(***************************************************************************)
\* start_session was not called before the i-th call
NoStartBefore(i) == \A j \in 1..(i - 1) : call.log[j].op # "start"

\* C30: a log_agent_response made before any start_session raises
\* RuntimeError, writes nothing and leaves the counter as it was; an
\* end_session made before any start_session raises nothing and changes nothing.
C30_NeedsSession ==
    call.fn = "AgentLogger" =>
        \A i \in DOMAIN call.log :
            NoStartBefore(i) =>
                /\ call.log[i].op = "log" =>
                      /\ call.log[i].raised = "RuntimeError"
                      /\ call.log[i].after.files = call.log[i].before.files
                      /\ call.log[i].after.logger.agent_counter =
                            call.log[i].before.logger.agent_counter
                /\ call.log[i].op = "end" =>
                      /\ call.log[i].raised = "none"
                      /\ call.log[i].after = call.log[i].before

\* log_agent_response and then end_session were called on a new logger
C30_Witness ==
    /\ call.fn = "AgentLogger"
    /\ Len(call.log) = 2
    /\ call.log[1].op = "log" /\ call.log[1].raised = "RuntimeError"
    /\ call.log[2].op = "end" /\ call.log[2].raised = "none"
    /\ call.files = << >>
    /\ call.logger = NewLogger

\* the calls of start_session before the i-th call, whether they returned or
\* raised
StartsBefore(i) == {j \in 1..(i - 1) : call.log[j].op = "start"}

\* the last of them
LastStart(i) == CHOOSE j \in StartsBefore(i) : \A k \in StartsBefore(i) : k <= j

\* how many log_agent_response calls were made after the j-th call, up to the i-th
LogsSince(j, i) == Cardinality({k \in (j + 1)..i : call.log[k].op = "log"})

\* the file the i-th call wrote, when it is a log_agent_response that returned
WrittenBy(i) == CHOOSE f \in DOMAIN call.log[i].after.files :
                    /\ f[2] = call.log[i].after.logger.agent_counter
                    /\ f[1] = call.log[i].after.logger.session_dir.v

\* C31 (the claim as stated): every call of start_session leaves the counter
\* at zero; the k-th log_agent_response after it uses the ordinal k, never 0,
\* and writes its record under an identifier that no other record written
\* since that start_session has; end_session reports the number of those
\* calls.
C31_Ordinals ==
    call.fn = "AgentLogger" =>
        \A i \in DOMAIN call.log :
            /\ call.log[i].op = "start" => call.log[i].after.logger.agent_counter = 0
            /\ (call.log[i].op = "log" /\ StartsBefore(i) # {}) =>
                  /\ call.log[i].after.logger.agent_counter = LogsSince(LastStart(i), i)
                  /\ call.log[i].after.logger.agent_counter >= 1
                  /\ call.log[i].raised = "none" =>
                        /\ \E f \in DOMAIN call.log[i].after.files :
                              /\ f[2] = LogsSince(LastStart(i), i)
                              /\ f # SessionFile(f[1])
                        /\ \A j \in (LastStart(i) + 1)..(i - 1) :
                              (call.log[j].op = "log" /\ call.log[j].raised = "none") =>
                                  WrittenBy(j) # WrittenBy(i)
            /\ (call.log[i].op = "end" /\ call.log[i].raised = "none"
                /\ StartsBefore(i) # {}) =>
                  LET f == SessionFile(call.log[i].after.logger.session_dir.v)
                      c == call.log[i].after.files[f]
                  IN  c[Len(c)].agents = LogsSince(LastStart(i), i)

(***************************************************************************)
(* Properties of the AgentLoggers of two concurrent runs.                  *)
(***************************************************************************)
\* the session key run r holds after the i-th call
KeyAfter(i, r) == call.log[i].after.loggers[r].session_dir

\* the files of session key d (a JSON string) in a storage
FilesOf(fs, d) == {f \in DOMAIN fs : f[1] = d.v}

\* C32: when the start_session calls of the two runs fall in the same second
\* the runs hold the same session key and the later call replaces the
\* session-info record of the earlier one; a log_agent_response leaves its
\* own record under its ordinal and agent name, whatever record of the other
\* run was there; and a call of a run changes no file of a session key that
\* is not its own, so runs started in different seconds never write to each
\* other's session.
C32_SameSecondSharesSession ==
    call.fn = "TwoLoggers" =>
        \A j \in DOMAIN call.log :
            LET e == call.log[j]
                d == KeyAfter(j, e.run)
            IN  /\ e.op = "start" =>
                      /\ \A i \in 1..(j - 1) :
                            (call.log[i].op = "start" /\ call.log[i].run # e.run) =>
                                (call.log[i].now.second = e.now.second
                                    <=> KeyAfter(i, call.log[i].run) = d)
                      /\ e.after.files[SessionFile(d.v)] =
                            <<[user_id |-> <<"anonymous">>, user_message |-> RunText(e.run)]>>
                /\ (e.op = "log" /\ e.raised = "none") =>
                      \E a \in Agents :
                          LET f == AgentFile(d.v, e.after.loggers[e.run].agent_counter, a)
                          IN  /\ f \in DOMAIN e.after.files
                              /\ e.after.files[f].raw_response = JStr(RunText(e.run))
                              /\ \A g \in DOMAIN e.before.files \ {f} :
                                    e.after.files[g] = e.before.files[g]
                /\ d # None =>
                      \A g \in DOMAIN e.before.files :
                          g[1] # d.v => (g \in DOMAIN e.after.files
                                         /\ e.after.files[g] = e.before.files[g])

\* both runs started in the same second; the second run's session-info
\* replaced the first's, and its record 01_SQLAgent replaced the first's
C32_Witness ==
    /\ call.fn = "TwoLoggers"
    /\ Len(call.log) = 4
    /\ call.log[1].op = "start" /\ call.log[1].run = 1
    /\ call.log[2].op = "start" /\ call.log[2].run = 2
    /\ call.log[2].now.second = call.log[1].now.second
    /\ call.log[2].now.micro # call.log[1].now.micro
    /\ call.log[3].op = "log" /\ call.log[3].run = 1
    /\ call.log[4].op = "log" /\ call.log[4].run = 2
    /\ DOMAIN call.files = {SessionFile(SecondText(1)),
                            AgentFile(SecondText(1), 1, "SQLAgent")}
    /\ DOMAIN call.log[4].before.files = DOMAIN call.files
    /\ call.log[4].before.files[AgentFile(SecondText(1), 1, "SQLAgent")].raw_response
          = JStr(RunText(1))
    /\ call.files[AgentFile(SecondText(1), 1, "SQLAgent")].raw_response = JStr(RunText(2))
    /\ call.files[SessionFile(SecondText(1))]
          = <<[user_id |-> <<"anonymous">>, user_message |-> RunText(2)]>>

(***************************************************************************)
(* Properties of the response and of the audit trail of a run.             *)
(***************************************************************************)
\* the agent names of agent_outputs, in order
OutputNames(outs) == [i \in DOMAIN outs |-> outs[i].agent_name]

IsPrefix(p, q) == Len(p) <= Len(q) /\ p = SubSeq(q, 1, Len(p))

\* the orders IntentAgent, SQLAgent, [VizAgent, [GraphExecutor]], [FormatAgent]
StageOrders ==
    { <<"IntentAgent", "SQLAgent", "FormatAgent">>,
      <<"IntentAgent", "SQLAgent", "VizAgent", "FormatAgent">>,
      <<"IntentAgent", "SQLAgent", "VizAgent", "GraphExecutor", "FormatAgent">> }

\* C33: in every state the agent names of agent_outputs are a prefix of one of
\* the stage orders, and every step leaves agent_outputs as it was or appends
\* one entry to it.
C33_OutputsAppendOnly ==
    /\ [](\E o \in StageOrders : IsPrefix(OutputNames(response.agent_outputs), o))
    /\ [][\/ response'.agent_outputs = response.agent_outputs
          \/ /\ Len(response'.agent_outputs) = Len(response.agent_outputs) + 1
             /\ IsPrefix(response.agent_outputs, response'.agent_outputs)]_vars

\* a returned run with the five entries
C33_Witness ==
    /\ Returned
    /\ OutputNames(response.agent_outputs) =
          <<"IntentAgent", "SQLAgent", "VizAgent", "GraphExecutor", "FormatAgent">>
    /\ response.success

\* the visualization output is a valid VizResult whose powerbi_url is not a real URL
VizPlaceholder ==
    /\ parsed["VizAgent"] # Unbound
    /\ parsed["VizAgent"].t = "obj"
    /\ BadFields(VizResult, parsed["VizAgent"]) = {}
    /\ PlaceholderUrl(parsed["VizAgent"].v["powerbi_url"].v)

\* C34: the step that handles a visualization output whose powerbi_url does
\* not start with https:// or holds a placeholder marker stores the VizResult
\* with that URL and raises nothing, and the stored URL is never changed later.
C34_PlaceholderAccepted ==
    /\ [][(pc = "viz_parse" /\ VizPlaceholder) =>
             /\ response'.viz_data # None
             /\ response'.viz_data.powerbi_url = parsed["VizAgent"].v["powerbi_url"]
             /\ exc_log' = exc_log
             /\ pc' = "close_viz_client"]_vars
    /\ []((VizPlaceholder /\ response.viz_data # None) =>
             response.viz_data.powerbi_url = parsed["VizAgent"].v["powerbi_url"])

\* a run that succeeded with an http URL in viz_data
C34_Witness ==
    /\ Returned
    /\ response.success
    /\ response.viz_data # None
    /\ response.viz_data.powerbi_url = JStr(<<"http://", "pbi">>)

\* C35: in every returned response errors is non-empty exactly when success
\* is false.
C35_ErrorsIffFailure ==
    Returned => (response.errors # << >> <=> ~response.success)

\* a run that succeeded without an image and without a structured response,
\* with no error recorded
C35_Witness ==
    /\ Returned
    /\ response.success
    /\ response.errors = << >>
    /\ hist.stages["chart"] = 1
    /\ response.viz_data # None
    /\ response.viz_data.image_url = None
    /\ response.formatted_response = None

\* the audit records of the agents in the storage; a file left empty or cut
\* short by a failed write is no record
AgentRecords ==
    {f \in DOMAIN files : f[2] > 0 /\ files[f] # EmptyFile /\ "cut" \notin DOMAIN files[f]}

\* no write of an agent record failed: every ordinal handed out has its record
NoWriteFailed == Cardinality(AgentRecords) = agent_logger.agent_counter

\* C36 (the claim as stated): as long as no audit write failed, in every state
\* of a run the audit records are as many as the entries of agent_outputs, and
\* the i-th record has the agent name, the raw response and the input of the
\* i-th entry.
C36_AuditMatchesOutputs ==
    NoWriteFailed =>
        /\ Len(response.agent_outputs) = Cardinality(AgentRecords)
        /\ \A i \in DOMAIN response.agent_outputs :
              LET out == response.agent_outputs[i] IN
              \E f \in AgentRecords :
                  /\ f[2] = i
                  /\ files[f].agent_name = out.agent_name
                  /\ files[f].raw_response = JStr(out.raw_response)
                  /\ files[f].input_text =
                        IF out.input_text # << >> THEN JStr(out.input_text) ELSE None

\* the intent output was handled and is a record without the key intent
IntentMissing ==
    /\ intent # Unbound
    /\ intent_data.t = "obj"
    /\ "intent" \notin DOMAIN intent_data.v

\* C37: an intent output that yields a record without the key intent (the
\* empty record when no JSON is found) gives the intent nivel_puntual; with any
\* intent other than requiere_visualizacion the visualization and chart-image
\* stages are not entered and their agents not executed, and a run that
\* validated the SQL result and raised nothing ran the formatting stage.
C37_DefaultIntent ==
    /\ IntentMissing =>
          intent = JStr(<<"nivel_puntual">>) /\ response.intent = intent
    /\ (intent # JStr(<<"requiere_visualizacion">>)) =>
          /\ hist.stages["viz"] = 0 /\ hist.stages["chart"] = 0
          /\ hist.execs["VizAgent"] = 0 /\ hist.execs["GraphExecutor"] = 0
          /\ (Returned /\ exc_log = << >> /\ response.sql_data # None) =>
                /\ hist.stages["format"] = 1
                /\ OutputNames(response.agent_outputs) =
                      <<"IntentAgent", "SQLAgent", "FormatAgent">>

\* a run whose intent output held no JSON succeeded with the default intent
C37_Witness ==
    /\ Returned
    /\ response.success
    /\ intent_data = EmptyDict
    /\ response.intent = JStr(<<"nivel_puntual">>)
    /\ hist.stages["viz"] = 0
    /\ hist.stages["format"] = 1

\* the run ended, nothing was raised, and Stage 1 had given no message with a text
EndedWithoutMessages ==
    /\ pc = "done" /\ Returned
    /\ exc_log = << >>
    /\ messages = << >>

\* C38: a run whose Stage 1 gave no message with a non-empty text returns
\* success = false with the one error of that case and nothing else filled in;
\* no agent record is written, no later stage is entered and no single agent
\* executed, and end_session wrote its summary.
C38_NoMessages ==
    EndedWithoutMessages =>
        /\ ~response.success
        /\ response.errors = <<<<"Concurrent workflow did not return any messages">>>>
        /\ response.intent = None /\ response.sql_data = None
        /\ response.viz_data = None /\ response.formatted_response = None
        /\ response.agent_outputs = << >>
        /\ AgentRecords = {} /\ agent_logger.agent_counter = 0
        /\ \A g \in DOMAIN hist.stages : hist.stages[g] = 0
        /\ \A a \in {"VizAgent", "GraphExecutor", "FormatAgent"} : hist.execs[a] = 0
        /\ Len(files[SessionFile(Timestamp)]) = 2
        /\ files[SessionFile(Timestamp)][2].status = "Con errores"
        /\ files[SessionFile(Timestamp)][2].agents = 0

\* such a run, ended with its channel closed and its credential closed
C38_Witness ==
    /\ EndedWithoutMessages
    /\ response.message = <<"Error: Concurrent workflow did not return any messages">>
    /\ handles["mcp"] = "closed"
    /\ credential = "closed"

\* Stage 1 gave exactly one message with a text and the run went on to handle it
SingleMessageHandled ==
    /\ Len(messages) = 1
    /\ intent_data # Unbound

\* the records 01_IntentAgent and 02_SQLAgent exist and both hold the text t
BothRecordsHold(t) ==
    \E f \in AgentRecords, g \in AgentRecords :
        /\ f[2] = 1 /\ files[f].agent_name = "IntentAgent"
        /\ g[2] = 2 /\ files[g].agent_name = "SQLAgent"
        /\ files[f].raw_response = JStr(t)
        /\ files[g].raw_response = JStr(t)

\* C39 (the claim as stated): when Stage 1 gives exactly one message with a
\* text, that text becomes both the intent output and the SQL output whoever
\* its author is, and, no audit write failing, the run ends with the records
\* of IntentAgent and SQLAgent written, both holding that text.
C39_SingleMessageBoth ==
    /\ [][(ReconcileStep /\ Len(messages) = 1) =>
              /\ raw_intent' = messages[1].text.v
              /\ raw_sql_result' = messages[1].text.v]_vars
    /\ []((pc = "done" /\ SingleMessageHandled /\ NoWriteFailed) =>
              BothRecordsHold(messages[1].text.v))

\* executions of agents made so far in the run, retries included
TotalExecs ==
    hist.execs["IntentAgent"] + hist.execs["SQLAgent"] + hist.execs["VizAgent"]
        + hist.execs["GraphExecutor"] + hist.execs["FormatAgent"]

\* no stage was entered twice, the Stage-1 agents ran together and once at
\* most, and no single agent was executed more often than the retry limit
ExecBounds ==
    /\ \A g \in DOMAIN hist.stages : hist.stages[g] <= 1
    /\ hist.execs["IntentAgent"] = hist.execs["SQLAgent"]
    /\ hist.execs["IntentAgent"] <= 1
    /\ \A a \in SingleAgents : hist.execs[a] <= AgentMaxRetries
    /\ TotalExecs <= 2 + 3 * AgentMaxRetries
    /\ TotalExecs <= 8

\* a stage is entered only when no later stage was; Stage 1 executes both agents
StageOrderStep ==
    /\ (pc = "stage1" /\ pc' = "stream") =>
            /\ hist'.execs["IntentAgent"] = 1 /\ hist'.execs["SQLAgent"] = 1
            /\ \A g \in DOMAIN hist.stages : hist.stages[g] = 0
    /\ hist'.stages["viz"] > hist.stages["viz"] =>
            /\ hist.execs["IntentAgent"] = 1
            /\ hist.stages["chart"] = 0 /\ hist.stages["format"] = 0
    /\ hist'.stages["chart"] > hist.stages["chart"] =>
            /\ hist.stages["viz"] = 1 /\ hist.stages["format"] = 0
    /\ hist'.stages["format"] > hist.stages["format"] =>
            hist.execs["IntentAgent"] = 1

\* C40 (the claim as stated): every step that can complete or fail doing so in
\* the end, every run of run_workflow eventually returns; no stage is entered
\* twice or after a later one, the two Stage-1 agents are executed once each
\* when Stage 1 runs, the visualization, chart-image and formatting agents at
\* most twice each, and a run makes at most 8 agent executions.
C40_ReturnsWithinBounds ==
    /\ <>(pc = "done" /\ Returned)
    /\ []ExecBounds
    /\ [][StageOrderStep]_vars
====
